---- MODULE Spec2Model ----
(***************************************************************************)
(* Verification model of docs-to-yaml: document key derivation             *)
(* (internal/document), the YAML merge and local-vs-remote reconciliation  *)
(* of find-locally-unique, and the archive classifier, index parser and    *)
(* merge loops of local-archive-to-yaml.                                   *)
(*                                                                         *)
(* Go strings are modelled as sequences of one-character strings, so that  *)
(* filepath.Ext, filepath.Base, strings.Contains, strings.Replace and      *)
(* string concatenation compute what the library computes.                 *)
(***************************************************************************)
EXTENDS Integers, Sequences, FiniteSets, TLC

VARIABLES
    keyDoc,        \* document handed to BuildKeyFromDocument
    keyResult,     \* the key it returned
    keyPc          \* "call" before the call, "done" after it, "off" when unused

\* A function of the repository applied to one argument
VARIABLES
    fnPc,          \* "off", or the function that is called, or "done" after the call
    fnArg,         \* its argument
    fnResult       \* what it returned

\* find-locally-unique
VARIABLES
    fluPc,                   \* position in main: off, local, remote, index, classify, write, done, merge
    localYamlFiles,          \* --local sources; a source is the map read by YamlDataInit
    remoteYamlFiles,         \* --remote sources
    writeOutputYaml,         \* --yaml given
    bmFilenames,             \* BuildMapOfDocuments: its argument
    bmIdx,                   \* BuildMapOfDocuments: number of sources opened so far
    bmPending,               \* keys of the current source not yet visited by the range loop
    documents,               \* BuildMapOfDocuments: the map under construction
    localDocuments,
    remoteDocuments,
    mapRemoteDocsByPartNum,
    mapRemoteDocsByFilename,
    idxPending,              \* remote keys not yet visited by the index-building loop
    clsPending,              \* local keys not yet visited by the reconciliation loop
    counts,                  \* the six counters of main
    uniqueDocuments,
    yamlOutput               \* the file written at the end: <<>> if none, <<map>> if written

\* local-archive-to-yaml
VARIABLES
    laPc,          \* position in main: off, next, custom, parse, submerge, merge, done, fatal, panic
    manifest,      \* indirectFileEntry: the entries of the indirect file
    fileExceptions, \* FileHandlingExceptions: FileSubstitutes, MissingFiles
    laLog,         \* what the last match of ParseIndexHtml logged: "" or "MISSING file"
    programFlags,  \* ProgamFlags: GenerateMD5
    laIdx,         \* number of manifest entries main has finished
    laCategory,    \* category ProcessArchive found for the current volume
    curIndex,      \* ParseIndexHtml: title_matches of the index file being parsed
    laLink,        \* number of matches already handled (of curIndex, or of the custom index)
    laSub,         \* number of sub-index files handed to ParseIndexHtml
    idxMap,        \* ParseIndexHtml: documentsMap
    catMap,        \* ProcessCategoryHTML/Metadata/Custom: documentsMap
    extraMap,      \* extraDocumentsMap of the range loop that is running
    mergePending,  \* keys of extraMap the range loop has not visited yet
    masterMap,     \* main: documentsMap
    md5Store,      \* persistentstore.Store: Active, Dirty, Data
    laOutput       \* the files main writes at its end: <<>> before, <<record>> after

callVars == <<fnPc, fnArg, fnResult>>
keyVars == <<keyDoc, keyResult, keyPc, callVars>>

laVars == <<laPc, manifest, fileExceptions, laLog, programFlags, laIdx, laCategory, curIndex, laLink,
            laSub, idxMap, catMap, extraMap, mergePending, masterMap, md5Store,
            laOutput>>

fluVars == <<fluPc, localYamlFiles, remoteYamlFiles, writeOutputYaml, bmFilenames,
             bmIdx, bmPending, documents, localDocuments, remoteDocuments,
             mapRemoteDocsByPartNum, mapRemoteDocsByFilename, idxPending,
             clsPending, counts, uniqueDocuments, yamlOutput>>

vars == <<keyVars, fluVars, laVars>>

----------------------------------------------------------------------------
(* Strings                                                                 *)

EmptyStr == <<>>

\* Strings of the inputs
sPDF == <<"P", "D", "F">>
sTitle == <<"T">>
sM1 == <<"m", "1">>
sM2 == <<"m", "2">>
sM3 == <<"m", "3">>
sM4 == <<"m", "4">>
sM9 == <<"m", "9">>
sBitsavers == <<"/", "b", "i", "t", "s", "a", "v", "e", "r", "s", "/">>

\* os.IsPathSeparator on Linux
IsPathSeparator(c) == c = "/"

\* path/filepath.Ext: the suffix beginning at the final dot in the final
\* element of path; empty if there is no dot.
RECURSIVE ExtFrom(_, _)
ExtFrom(path, i) ==
    IF i < 1 \/ IsPathSeparator(path[i]) THEN EmptyStr
    ELSE IF path[i] = "." THEN SubSeq(path, i, Len(path))
    ELSE ExtFrom(path, i - 1)

Ext(path) == ExtFrom(path, Len(path))

\* strings.Replace(s, old, "", -1) for a one-character old
RECURSIVE RemoveChar(_, _)
RemoveChar(s, c) ==
    IF s = EmptyStr THEN EmptyStr
    ELSE IF Head(s) = c THEN RemoveChar(Tail(s), c)
    ELSE <<Head(s)>> \o RemoveChar(Tail(s), c)

\* strings.Contains
Contains(s, sub) ==
    \E i \in 1..(Len(s) - Len(sub) + 1) : SubSeq(s, i, i + Len(sub) - 1) = sub

\* Strip trailing path separators (first loop of filepath.Base)
RECURSIVE StripTrailingSlashes(_)
StripTrailingSlashes(p) ==
    IF Len(p) > 0 /\ IsPathSeparator(p[Len(p)])
    THEN StripTrailingSlashes(SubSeq(p, 1, Len(p) - 1))
    ELSE p

\* Index of the last path separator of p, 0 if none
RECURSIVE LastSlash(_, _)
LastSlash(p, i) ==
    IF i < 1 THEN 0
    ELSE IF IsPathSeparator(p[i]) THEN i
    ELSE LastSlash(p, i - 1)

\* path/filepath.Base
Base(path) ==
    IF path = EmptyStr THEN <<".">>
    ELSE LET p == StripTrailingSlashes(path)
             q == SubSeq(p, LastSlash(p, Len(p)) + 1, Len(p))
         IN  IF q = EmptyStr THEN <<"/">> ELSE q

----------------------------------------------------------------------------
(* internal/document                                                       *)

\* The fields of Document that keys, merges and reconciliation read.
Doc(format, md5, title, partNum, filepath) ==
    [Format |-> format, Md5 |-> md5, Title |-> title, PartNum |-> partNum,
     Filepath |-> filepath]

inventedPartNum == EmptyStr
inventedTitle == EmptyStr

\* Mutation: the title is tried before the part number.
BuildKeyFromDocument_TitleFirst(doc) ==
    IF doc.Md5 # EmptyStr THEN doc.Md5
    ELSE IF doc.Title # EmptyStr /\ doc.Title # inventedTitle
         THEN doc.Title \o Ext(doc.Filepath)
    ELSE IF doc.PartNum # EmptyStr /\ doc.PartNum # inventedPartNum
         THEN doc.PartNum \o Ext(doc.Filepath)
    ELSE doc.Filepath

BuildKeyFromDocument(doc) ==
    IF doc.Md5 # EmptyStr THEN doc.Md5
    ELSE IF doc.PartNum # EmptyStr /\ doc.PartNum # inventedPartNum
         THEN doc.PartNum \o Ext(doc.Filepath)
    ELSE IF doc.Title # EmptyStr /\ doc.Title # inventedTitle
         THEN doc.Title \o Ext(doc.Filepath)
    ELSE doc.Filepath

----------------------------------------------------------------------------
(* Key derivation applied to a bounded set of documents                    *)

KeyMd5s == {EmptyStr, <<"m", "1">>}
KeyPartNums == {EmptyStr, <<"E", "K", "-", "1">>, <<"A", ".", "2">>}
KeyTitles == {EmptyStr, <<"G", "u", "i", "d", "e">>, <<"T">>}
KeyFilepaths ==
    { EmptyStr,
      <<"M", "Y", "-", "F", "P">>,
      <<"d", "/", "a", ".", "p", "d", "f">>,
      <<"d", ".", "x", "/", "a">>,
      <<"a", ".", "t", "x", "t">> }

KeyDocs ==
    { Doc(EmptyStr, m, t, p, f) :
        m \in KeyMd5s, t \in KeyTitles, p \in KeyPartNums, f \in KeyFilepaths }

\* No single function is called.
CallOff ==
    /\ fnPc = "off"
    /\ fnArg = EmptyStr
    /\ fnResult = EmptyStr

KeyStart ==
    /\ keyDoc \in KeyDocs
    /\ keyResult = EmptyStr
    /\ keyPc = "call"
    /\ CallOff

KeyOff ==
    /\ keyDoc = Doc(EmptyStr, EmptyStr, EmptyStr, EmptyStr, EmptyStr)
    /\ keyResult = EmptyStr
    /\ keyPc = "off"
    /\ CallOff

DeriveKey ==
    /\ keyPc = "call"
    /\ keyResult' = BuildKeyFromDocument(keyDoc)
    /\ keyPc' = "done"
    /\ UNCHANGED <<keyDoc, callVars, fluVars, laVars>>

----------------------------------------------------------------------------
(* find-locally-unique                                                     *)

EmptyMap == [k \in {} |-> EmptyStr]

\* m[k] = v in Go: insert or replace
Put(m, k, v) == [x \in DOMAIN m \cup {k} |-> IF x = k THEN v ELSE m[x]]

\* The key BuildMapOfDocuments picks for the entry k => v of a source.
PickKey(k, v) ==
    IF k # v.Md5 /\ v.Md5 # EmptyStr THEN v.Md5
    ELSE IF k = EmptyStr THEN BuildKeyFromDocument(v)
    ELSE k

\* Mutation: an entry whose checksum differs from the stored one replaces it.
BuildMapInsert_ReplaceOnDifferingMd5(docs, k, v) ==
    LET key == PickKey(k, v)
    IN  IF key \in DOMAIN docs
        THEN IF v.Md5 # docs[key].Md5 THEN Put(docs, key, v) ELSE docs
        ELSE Put(docs, key, v)

\* Body of the inner loop of BuildMapOfDocuments for the entry k => v.
BuildMapInsert(docs, k, v) ==
    LET key == PickKey(k, v)
    IN  IF key \in DOMAIN docs
        THEN docs             \* found: a message at most, the map is untouched
        ELSE Put(docs, key, v)

\* partNum with "-" and "." removed, as main does on both sides
NormalisePartNum(partNum) == RemoveChar(RemoveChar(partNum, "-"), ".")

partialPathsToReject ==
    << <<"/", "m", "e", "t", "a", "d", "a", "t", "a", "/">>,
       <<"/", "b", "i", "t", "s", "a", "v", "e", "r", "s", "/">>,
       <<"/", "c", "h", "o", "o", "k", "/">>,
       <<"/", "M", "D", "S", "/", "1", "9", "9", "4", "-">> >>

\* Mutation: the checksum is looked up before the path fragments are tested.
Classify_Md5First(localDoc, remote, byPartNum, byFilename) ==
    IF localDoc.Md5 \in DOMAIN remote THEN "md5"
    ELSE IF \E i \in 1..Len(partialPathsToReject) :
               Contains(localDoc.Filepath, partialPathsToReject[i])
    THEN "path"
    ELSE IF NormalisePartNum(localDoc.PartNum) \in DOMAIN byPartNum THEN "pn"
    ELSE IF Base(localDoc.Filepath) \in DOMAIN byFilename THEN "fn"
    ELSE "unique"

\* The branch the body of the reconciliation loop takes for localDoc.
Classify(localDoc, remote, byPartNum, byFilename) ==
    IF \E i \in 1..Len(partialPathsToReject) :
           Contains(localDoc.Filepath, partialPathsToReject[i])
    THEN "path"
    ELSE IF localDoc.Md5 \in DOMAIN remote THEN "md5"
    ELSE IF NormalisePartNum(localDoc.PartNum) \in DOMAIN byPartNum THEN "pn"
    ELSE IF Base(localDoc.Filepath) \in DOMAIN byFilename THEN "fn"
    ELSE "unique"

ZeroCounts ==
    [localMissingMd5 |-> 0, locallyUnique |-> 0, matchedPN |-> 0,
     matchedFN |-> 0, matchedPath |-> 0, matchedMD5 |-> 0]

BMPhases == {"local", "remote", "merge"}

\* BuildMapOfDocuments: YamlDataInit on the next source
BMReadFile ==
    /\ fluPc \in BMPhases
    /\ bmPending = {}
    /\ bmIdx < Len(bmFilenames)
    /\ bmIdx' = bmIdx + 1
    /\ bmPending' = DOMAIN bmFilenames[bmIdx + 1]
    /\ UNCHANGED <<fluPc, localYamlFiles, remoteYamlFiles, writeOutputYaml,
                   bmFilenames, documents, localDocuments, remoteDocuments,
                   mapRemoteDocsByPartNum, mapRemoteDocsByFilename, idxPending,
                   clsPending, counts, uniqueDocuments, yamlOutput, keyVars, laVars>>

\* BuildMapOfDocuments: one iteration of "for k, v := range initialData"
BMMergeEntry ==
    /\ fluPc \in BMPhases
    /\ \E k \in bmPending :
          /\ documents' = BuildMapInsert(documents, k, bmFilenames[bmIdx][k])
          /\ bmPending' = bmPending \ {k}
    /\ UNCHANGED <<fluPc, localYamlFiles, remoteYamlFiles, writeOutputYaml,
                   bmFilenames, bmIdx, localDocuments, remoteDocuments,
                   mapRemoteDocsByPartNum, mapRemoteDocsByFilename, idxPending,
                   clsPending, counts, uniqueDocuments, yamlOutput, keyVars, laVars>>

BMFinished == bmPending = {} /\ bmIdx = Len(bmFilenames)

\* localDocuments := BuildMapOfDocuments(localYamlFiles) returns; the call for
\* the remote sources starts
ReturnLocalDocuments ==
    /\ fluPc = "local"
    /\ BMFinished
    /\ localDocuments' = documents
    /\ fluPc' = "remote"
    /\ bmFilenames' = remoteYamlFiles
    /\ bmIdx' = 0
    /\ documents' = EmptyMap
    /\ UNCHANGED <<localYamlFiles, remoteYamlFiles, writeOutputYaml, bmPending,
                   remoteDocuments, mapRemoteDocsByPartNum,
                   mapRemoteDocsByFilename, idxPending, clsPending, counts,
                   uniqueDocuments, yamlOutput, keyVars, laVars>>

\* remoteDocuments := BuildMapOfDocuments(remoteYamlFiles) returns
ReturnRemoteDocuments ==
    /\ fluPc = "remote"
    /\ BMFinished
    /\ remoteDocuments' = documents
    /\ idxPending' = DOMAIN documents
    /\ clsPending' = DOMAIN localDocuments
    /\ fluPc' = "index"
    /\ UNCHANGED <<localYamlFiles, remoteYamlFiles, writeOutputYaml, bmFilenames,
                   bmIdx, bmPending, documents, localDocuments,
                   mapRemoteDocsByPartNum, mapRemoteDocsByFilename, counts,
                   uniqueDocuments, yamlOutput, keyVars, laVars>>

\* One iteration of "for _, v := range remoteDocuments"
IndexRemoteDocument ==
    /\ fluPc = "index"
    /\ \E k \in idxPending :
          LET v == remoteDocuments[k]
              partNum == NormalisePartNum(v.PartNum)
              fn == Base(v.Filepath)
          IN  /\ mapRemoteDocsByPartNum' =
                    IF partNum \in DOMAIN mapRemoteDocsByPartNum
                    THEN mapRemoteDocsByPartNum
                    ELSE Put(mapRemoteDocsByPartNum, partNum, v)
              /\ mapRemoteDocsByFilename' =
                    IF fn \in DOMAIN mapRemoteDocsByFilename
                    THEN mapRemoteDocsByFilename
                    ELSE Put(mapRemoteDocsByFilename, fn, v)
              /\ idxPending' = idxPending \ {k}
    /\ UNCHANGED <<fluPc, localYamlFiles, remoteYamlFiles, writeOutputYaml,
                   bmFilenames, bmIdx, bmPending, documents, localDocuments,
                   remoteDocuments, clsPending, counts, uniqueDocuments,
                   yamlOutput, keyVars, laVars>>

\* One iteration of "for _, localDoc := range localDocuments"
ClassifyLocalDocument ==
    /\ fluPc \in {"index", "classify"}
    /\ idxPending = {}
    /\ \E k \in clsPending :
          LET localDoc == localDocuments[k]
              branch == Classify(localDoc, remoteDocuments,
                                 mapRemoteDocsByPartNum, mapRemoteDocsByFilename)
              missing == IF localDoc.Md5 = EmptyStr THEN 1 ELSE 0
          IN  /\ counts' =
                    [localMissingMd5 |-> counts.localMissingMd5 + missing,
                     matchedPath |-> counts.matchedPath + (IF branch = "path" THEN 1 ELSE 0),
                     matchedMD5 |-> counts.matchedMD5 + (IF branch = "md5" THEN 1 ELSE 0),
                     matchedPN |-> counts.matchedPN + (IF branch = "pn" THEN 1 ELSE 0),
                     matchedFN |-> counts.matchedFN + (IF branch = "fn" THEN 1 ELSE 0),
                     locallyUnique |-> counts.locallyUnique + (IF branch = "unique" THEN 1 ELSE 0)]
              /\ uniqueDocuments' =
                    IF branch = "unique"
                    THEN Put(uniqueDocuments, localDoc.Filepath, localDoc)
                    ELSE uniqueDocuments
              /\ clsPending' = clsPending \ {k}
    /\ fluPc' = "classify"
    /\ UNCHANGED <<localYamlFiles, remoteYamlFiles, writeOutputYaml, bmFilenames,
                   bmIdx, bmPending, documents, localDocuments, remoteDocuments,
                   mapRemoteDocsByPartNum, mapRemoteDocsByFilename, idxPending,
                   yamlOutput, keyVars, laVars>>

\* The counters are printed and the output YAML file is written if asked for
WriteUniqueYaml ==
    /\ fluPc \in {"index", "classify"}
    /\ idxPending = {}
    /\ clsPending = {}
    /\ yamlOutput' = IF writeOutputYaml THEN <<uniqueDocuments>> ELSE <<>>
    /\ fluPc' = "done"
    /\ UNCHANGED <<localYamlFiles, remoteYamlFiles, writeOutputYaml, bmFilenames,
                   bmIdx, bmPending, documents, localDocuments, remoteDocuments,
                   mapRemoteDocsByPartNum, mapRemoteDocsByFilename, idxPending,
                   clsPending, counts, uniqueDocuments, keyVars, laVars>>

\* A standalone call of BuildMapOfDocuments returns
ReturnMergedDocuments ==
    /\ fluPc = "merge"
    /\ BMFinished
    /\ fluPc' = "done"
    /\ UNCHANGED <<localYamlFiles, remoteYamlFiles, writeOutputYaml, bmFilenames,
                   bmIdx, bmPending, documents, localDocuments, remoteDocuments,
                   mapRemoteDocsByPartNum, mapRemoteDocsByFilename, idxPending,
                   clsPending, counts, uniqueDocuments, yamlOutput, keyVars, laVars>>

----------------------------------------------------------------------------
(* local-archive-to-yaml                                                   *)

ArchiveCategories ==
    {"AC_Undefined", "AC_CSV", "AC_Regular", "AC_HTML", "AC_Metadata", "AC_Custom"}

\* DetermineCategory with one of its checks changed; every flag TRUE gives
\* DetermineCategory itself.
\*   cooccur:     INDEX.HTM next to index.htm, metadata/ or DEC_0040.CRC is invalid
\*   indexCheck:  a missing index.htm is invalid unless the category is AC_HTML
\*   bothInvalid: metadata/ next to DEC_0040.CRC is invalid
\*   default:     a valid volume with no other category is AC_Regular
CategoryVariant(m, cooccur, indexCheck, bothInvalid, default) ==
    LET valid1 ==
            IF m.INDEX_dot_HTM
            THEN m.dir_HTML
                 /\ ~(cooccur /\ (m.index_dot_htm \/ m.dir_metadata \/ m.custom_indicator))
            ELSE ~m.dir_HTML
        category1 == IF m.INDEX_dot_HTM /\ valid1 THEN "AC_HTML" ELSE "AC_Undefined"
        valid2 == valid1 /\ ~(indexCheck /\ ~m.index_dot_htm /\ category1 # "AC_HTML")
        valid3 == valid2 /\ ~(bothInvalid /\ m.dir_metadata /\ m.custom_indicator)
        category3 == IF m.dir_metadata /\ valid3 THEN "AC_Metadata" ELSE category1
        category4 == IF m.custom_indicator /\ valid3 THEN "AC_Custom" ELSE category3
    IN  IF default /\ valid3 /\ category4 = "AC_Undefined" THEN "AC_Regular" ELSE category4

\* Mutation: finding both metadata/ and DEC_0040.CRC is a fault.
DetermineCategory_FaultOnBoth(m) ==
    IF m.dir_metadata /\ m.custom_indicator THEN "fault"
    ELSE CategoryVariant(m, TRUE, TRUE, TRUE, TRUE)

\* Mutation: the final "valid and still undefined means regular" is left out.
DetermineCategory_NoDefault(m) == CategoryVariant(m, TRUE, TRUE, TRUE, FALSE)

\* Mutation: INDEX.HTM is accepted next to index.htm, metadata/ or DEC_0040.CRC.
DetermineCategory_NoCooccurrenceCheck(m) == CategoryVariant(m, FALSE, TRUE, TRUE, TRUE)

\* Mutation: the check for index.htm is left out.
DetermineCategory_NoIndexCheck(m) == CategoryVariant(m, TRUE, FALSE, TRUE, TRUE)

\* Mutation: DEC_0040.CRC next to metadata/ is not invalid, so custom wins.
DetermineCategory_CustomOverrides(m) == CategoryVariant(m, TRUE, TRUE, FALSE, TRUE)

\* DetermineCategory, from the five found_* values it computes with os.Stat:
\* the statements are applied in the order of the code, validN and categoryN
\* being the values of valid and category after the N-th block.
DetermineCategory(m) ==
    LET valid1 ==
            IF m.INDEX_dot_HTM
            THEN m.dir_HTML
                 /\ ~(m.index_dot_htm \/ m.dir_metadata \/ m.custom_indicator)
            ELSE ~m.dir_HTML
        category1 == IF m.INDEX_dot_HTM /\ valid1 THEN "AC_HTML" ELSE "AC_Undefined"
        valid2 == valid1 /\ ~(~m.index_dot_htm /\ category1 # "AC_HTML")
        valid3 == valid2 /\ ~(m.dir_metadata /\ m.custom_indicator)
        category3 == IF m.dir_metadata /\ valid3 THEN "AC_Metadata" ELSE category1
        category4 == IF m.custom_indicator /\ valid3 THEN "AC_Custom" ELSE category3
    IN  IF valid3 /\ category4 = "AC_Undefined" THEN "AC_Regular" ELSE category4

UpperLetters == <<"A", "B", "C", "D", "E", "F", "G", "H", "I", "J", "K", "L", "M",
                  "N", "O", "P", "Q", "R", "S", "T", "U", "V", "W", "X", "Y", "Z">>
LowerLetters == <<"a", "b", "c", "d", "e", "f", "g", "h", "i", "j", "k", "l", "m",
                  "n", "o", "p", "q", "r", "s", "t", "u", "v", "w", "x", "y", "z">>

ToLowerChar(c) ==
    IF \E i \in 1..Len(UpperLetters) : UpperLetters[i] = c
    THEN LowerLetters[CHOOSE i \in 1..Len(UpperLetters) : UpperLetters[i] = c]
    ELSE c

ToUpperChar(c) ==
    IF \E i \in 1..Len(LowerLetters) : LowerLetters[i] = c
    THEN UpperLetters[CHOOSE i \in 1..Len(LowerLetters) : LowerLetters[i] = c]
    ELSE c

ToLower(s) == [i \in 1..Len(s) |-> ToLowerChar(s[i])]
ToUpper(s) == [i \in 1..Len(s) |-> ToUpperChar(s[i])]

\* filepath.Glob on the pattern of BuildCaseInsensitivePathGlob: the files of
\* the volume whose path is the wanted one up to the case of letters.
GlobCaseInsensitive(files, path) ==
    {f \in files : ToLower(f.path) = ToLower(path)}

IsSpace(c) == c \in {" ", "\t", "\n", "\r"}

RECURSIVE TrimLeft(_)
TrimLeft(s) == IF s # EmptyStr /\ IsSpace(Head(s)) THEN TrimLeft(Tail(s)) ELSE s

RECURSIVE TrimRight(_)
TrimRight(s) ==
    IF s # EmptyStr /\ IsSpace(s[Len(s)])
    THEN TrimRight(SubSeq(s, 1, Len(s) - 1))
    ELSE s

\* strings.TrimSpace
TrimSpace(s) == TrimRight(TrimLeft(s))

\* strings.Replace(s, old, new, n) for one-character old and new and n >= 0
RECURSIVE ReplaceChar(_, _, _, _)
ReplaceChar(s, old, new, n) ==
    IF s = EmptyStr \/ n = 0 THEN s
    ELSE IF Head(s) = old THEN <<new>> \o ReplaceChar(Tail(s), old, new, n - 1)
    ELSE <<Head(s)>> \o ReplaceChar(Tail(s), old, new, n)

\* KnownFileTypes of local-archive-to-yaml
KnownFileTypes ==
    { <<"P", "D", "F">>, <<"T", "X", "T">>, <<"M", "E", "M">>, <<"R", "N", "O">>, <<"P", "S">>, <<"H", "T", "M">>, <<"H", "T", "M", "L">>, <<"Z", "I", "P">>, <<"L", "N", "3">>, <<"T", "I", "F">>,
      <<"J", "P", "G">>, <<"J", "P", "E", "G">> }

\* DetermineFileFormat: the format, or "???" where it calls log.Fatal
DetermineFileFormat(filename) ==
    LET ext == ToUpper(Ext(filename))
        filetype0 == IF ext # EmptyStr /\ Head(ext) = "." THEN Tail(ext) ELSE ext
        filetype1 == IF filetype0 = <<"H", "T", "M">> THEN <<"H", "T", "M", "L">> ELSE filetype0
        filetype == IF filetype1 = <<"J", "P", "E">> THEN <<"J", "P", "E", "G">> ELSE filetype1
    IN  IF filetype \in KnownFileTypes THEN filetype ELSE <<"?", "?", "?">>

\* The key ParseIndexHtml and ProcessCategoryCustom build for a new document.
IndexKey(md5Checksum, partNumber, title, format) ==
    IF md5Checksum # EmptyStr THEN md5Checksum
    ELSE LET key == partNumber \o <<"~">> \o format
         IN  IF key = EmptyStr THEN title \o <<"~">> \o format ELSE key

sDUPLICATE == <<"D", "U", "P", "L", "I", "C", "A", "T", "E">>
sDUPLICATEof == <<"D", "U", "P", "L", "I", "C", "A", "T", "E", "-", "o", "f", "-">>
sFileScheme == <<"f", "i", "l", "e", ":", "/", "/", "/">>
sDEC0040 == <<"D", "E", "C", "_", "0", "0", "4", "0">>
sMISSINGfile == <<"M", "I", "S", "S", "I", "N", "G", " ", "f", "i", "l", "e">>
ReplaceLimit == 20

\* ParseIndexHtml: "If a duplicate is found, keep the previous entry"
ParseIndexInsert(docs, key, newDocument) ==
    IF key \in DOMAIN docs
    THEN IF newDocument.Filepath # docs[key].Filepath
         THEN LET previousFilePath == docs[key].Filepath
                  newKey == key \o sDUPLICATE
                            \o ReplaceChar(previousFilePath, "/", "_", ReplaceLimit)
              IN  Put(docs, newKey, newDocument)
         ELSE docs
    ELSE Put(docs, key, newDocument)

\* Body of "for k, v := range extraDocumentsMap" in ProcessCategoryHTML,
\* ProcessCategoryMetadata and ProcessCategoryCustom
CategoryMergeInsert(docs, k, v) == Put(docs, k, v)

\* Mutation: every colliding document goes under a DUPLICATE-of- key.
MainMergeInsert_AlwaysRename(docs, k, v) ==
    IF k \in DOMAIN docs
    THEN Put(docs, k \o sDUPLICATEof \o docs[k].Filepath, v)
    ELSE Put(docs, k, v)

\* Body of "for k, v := range extraDocumentsMap" in main
MainMergeInsert(docs, k, v) ==
    IF k \in DOMAIN docs
    THEN LET val == docs[k]
         IN  IF v.Md5 # EmptyStr /\ v.Md5 = val.Md5
             THEN Put(docs, k, v)
             ELSE Put(docs, k \o sDUPLICATEof \o val.Filepath, v)
    ELSE Put(docs, k, v)

\* Store.Lookup
Lookup(thing, key) ==
    IF key \in DOMAIN thing.Data THEN [value |-> thing.Data[key], found |-> TRUE]
    ELSE [value |-> EmptyStr, found |-> FALSE]

\* Mutation: the store is not marked as modified.
Update_NotDirty(thing, key, data) == [thing EXCEPT !.Data = Put(thing.Data, key, data)]

\* Store.Update
Update(thing, key, data) ==
    [thing EXCEPT !.Data = Put(thing.Data, key, data), !.Dirty = TRUE]

\* CalculateMd5Sum: what it returns, the store afterwards, and whether it has
\* called Update. readable: os.ReadFile succeeds on the file.
CalculateMd5Sum(md5Store_, filenameInCache, file, readable) ==
    IF Lookup(md5Store_, filenameInCache).found
    THEN [md5 |-> Lookup(md5Store_, filenameInCache).value, err |-> FALSE,
          store |-> md5Store_, updated |-> FALSE]
    ELSE IF ~readable
    THEN [md5 |-> EmptyStr, err |-> TRUE, store |-> md5Store_, updated |-> FALSE]
    ELSE [md5 |-> file.md5, err |-> FALSE,
          store |-> Update(md5Store_, filenameInCache, file.md5), updated |-> TRUE]

\* CalculateMd5Sum on a file of a volume, which can be read: the checksum
\* returned, and the store afterwards
Md5Of(store, filenameInCache, file) ==
    CalculateMd5Sum(store, filenameInCache, file, TRUE).md5

StoreAfterMd5(store, filenameInCache, file) ==
    CalculateMd5Sum(store, filenameInCache, file, TRUE).store

\* BuildNewLocalDocument (the file exists: os.Stat has succeeded)
BuildNewLocalDocument(title, partNum, filePath, documentPath, md5Checksum) ==
    LET t == TrimSpace(title)
    IN  Doc(DetermineFileFormat(filePath), md5Checksum,
            IF t # EmptyStr /\ t[Len(t)] = "\n" THEN SubSeq(t, 1, Len(t) - 1) ELSE t,
            TrimSpace(partNum), documentPath)

\* The files below every archive root, with the checksum of their content.
DiskFiles ==
    { [path |-> <<"a", ".", "p", "d", "f">>, md5 |-> sM1],
      [path |-> <<"B", ".", "P", "D", "F">>, md5 |-> sM1],
      [path |-> <<"c", ".", "p", "d", "f">>, md5 |-> sM3],
      [path |-> <<"d", ".", "p", "d", "f">>, md5 |-> sM4],
      [path |-> <<"D", ".", "p", "d", "f">>, md5 |-> sM4],
      [path |-> <<"e", ".", "x", "y", "z">>, md5 |-> sM9] }

\* Assignment to the variables of local-archive-to-yaml that a step changes
\* after the manifest has been read.
LaStepEx(pc, idx, category, index, link, sub, imap, cmap, extra, pending, master, store, output, exceptions, log) ==
    /\ laPc' = pc
    /\ fileExceptions' = exceptions
    /\ laLog' = log
    /\ laIdx' = idx
    /\ laCategory' = category
    /\ curIndex' = index
    /\ laLink' = link
    /\ laSub' = sub
    /\ idxMap' = imap
    /\ catMap' = cmap
    /\ extraMap' = extra
    /\ mergePending' = pending
    /\ masterMap' = master
    /\ md5Store' = store
    /\ laOutput' = output
    /\ UNCHANGED <<manifest, programFlags, keyVars, fluVars>>

\* A step that leaves the exception tables and the log alone
LaStep(pc, idx, category, index, link, sub, imap, cmap, extra, pending, master, store, output) ==
    LaStepEx(pc, idx, category, index, link, sub, imap, cmap, extra, pending,
             master, store, output, fileExceptions, laLog)

\* log.Fatal: the process ends where it is
LaFatal(store) ==
    LaStep("fatal", laIdx, laCategory, curIndex, laLink, laSub, idxMap, catMap,
           extraMap, mergePending, masterMap, store, laOutput)

\* ParseIndexHtml is entered for an index file with the matches index:
\* "No matches found" is fatal.
EnterParseIndexHtml(category, index, sub, cmap) ==
    IF index = <<>>
    THEN LaStep("fatal", laIdx, category, curIndex, laLink, laSub, idxMap,
                catMap, extraMap, mergePending, masterMap, md5Store, laOutput)
    ELSE LaStep("parse", laIdx, category, index, 0, sub, EmptyMap, cmap,
                extraMap, mergePending, masterMap, md5Store, laOutput)

\* main takes the next PathAndVolume and calls ProcessArchive, which calls
\* DetermineCategory and the function for that category.
ProcessArchive ==
    /\ laPc = "next"
    /\ laIdx < Len(manifest)
    /\ manifest[laIdx + 1].type = "PathAndVolume"
    /\ LET vol == manifest[laIdx + 1]
           category == DetermineCategory(vol.markers)
       IN  CASE category = "AC_Regular" ->
                  EnterParseIndexHtml(category, vol.top, 0, EmptyMap)
             [] category \in {"AC_HTML", "AC_Metadata"} ->
                  IF vol.subs = <<>>
                  THEN LaStep("fatal", laIdx, category, curIndex, laLink, laSub,
                              idxMap, catMap, extraMap, mergePending, masterMap,
                              md5Store, laOutput)
                  ELSE EnterParseIndexHtml(category, vol.subs[1], 1, EmptyMap)
             [] category = "AC_Custom" ->
                  IF vol.top = <<>> /\ vol.subs = <<>>
                  THEN LaStep("fatal", laIdx, category, curIndex, laLink, laSub,
                              idxMap, catMap, extraMap, mergePending, masterMap,
                              md5Store, laOutput)
                  ELSE LaStep("custom", laIdx, category, <<>>, 0, 0, EmptyMap,
                              EmptyMap, extraMap, mergePending, masterMap,
                              md5Store, laOutput)
             [] OTHER ->
                  \* AC_Undefined, AC_CSV: a message, and nil is returned
                  LaStep("merge", laIdx, category, <<>>, 0, 0, EmptyMap, EmptyMap,
                         EmptyMap, {}, masterMap, md5Store, laOutput)

\* ProcessCategoryCustom: one match of index.htm that is not a link to a .htm
\* file. The file is opened under the name the link gives.
CustomDirectLink ==
    /\ laPc = "custom"
    /\ laLink < Len(manifest[laIdx + 1].top)
    /\ LET vol == manifest[laIdx + 1]
           link == vol.top[laLink + 1]
           found == {f \in DiskFiles : f.path = link.target}
       IN  IF found = {}
           THEN LaFatal(md5Store)
           ELSE LET f == CHOOSE f \in found : TRUE
                    cacheKey == vol.name \o <<"/", "/">> \o f.path
                    md5Checksum == IF programFlags.GenerateMD5
                                   THEN Md5Of(md5Store, cacheKey, f)
                                   ELSE EmptyStr
                    store == IF programFlags.GenerateMD5
                             THEN StoreAfterMd5(md5Store, cacheKey, f)
                             ELSE md5Store
                    newDoc == BuildNewLocalDocument(
                                  link.title, link.partNumber, f.path,
                                  sFileScheme \o sDEC0040 \o <<"/">> \o f.path,
                                  md5Checksum)
                    key == IndexKey(md5Checksum, link.partNumber, link.title,
                                    newDoc.Format)
                IN  IF newDoc.Format = <<"?", "?", "?">>
                    THEN LaFatal(store)
                    ELSE LaStep("custom", laIdx, laCategory, curIndex, laLink + 1,
                                laSub, idxMap, Put(catMap, key, newDoc), extraMap,
                                mergePending, masterMap, store, laOutput)

\* FileHandlingExceptions with both tables empty
NoExceptions == [FileSubstitutes |-> <<>>, MissingFiles |-> <<>>]

SubstituteFile(mistyped, actual) ==
    [type |-> "SubstituteFile", MistypedFilepath |-> mistyped, ActualFilepath |-> actual]

MissingFile(filepath) == [type |-> "MissingFile", Filepath |-> filepath]

\* main: the entry of the indirect file is a SubstituteFile or a MissingFile,
\* it is appended to its table
MainException ==
    /\ laPc = "next"
    /\ laIdx < Len(manifest)
    /\ manifest[laIdx + 1].type # "PathAndVolume"
    /\ LET item == manifest[laIdx + 1]
       IN  LaStepEx("next", laIdx + 1, laCategory, curIndex, laLink, laSub, idxMap,
                    catMap, extraMap, mergePending, masterMap, md5Store, laOutput,
                    IF item.type = "SubstituteFile"
                    THEN [fileExceptions EXCEPT !.FileSubstitutes = Append(@, item)]
                    ELSE [fileExceptions EXCEPT !.MissingFiles = Append(@, item)],
                    laLog)

\* "Swap the last element into the slot occupied by the now used and
\* to-be-discarded element, then shorten by one"
RemoveBySwap(table, idx) ==
    SubSeq([table EXCEPT ![idx] = table[Len(table)]], 1, Len(table) - 1)

\* Mutation: the entry is removed whether or not the retry finds a file.
RECURSIVE SubstituteLoop_AlwaysRemoves(_, _, _, _)
SubstituteLoop_AlwaysRemoves(table, idx, path, candidateFile) ==
    IF idx > Len(table)
    THEN [fileFound |-> FALSE, candidateFile |-> candidateFile, FileSubstitutes |-> table]
    ELSE IF table[idx].MistypedFilepath = path
         THEN LET retry == GlobCaseInsensitive(DiskFiles, table[idx].ActualFilepath)
              IN  [fileFound |-> retry # {}, candidateFile |-> retry,
                   FileSubstitutes |-> RemoveBySwap(table, idx)]
         ELSE SubstituteLoop_AlwaysRemoves(table, idx + 1, path, candidateFile)

\* ParseIndexHtml: "for idx, v := range fileExceptions.FileSubstitutes" from
\* the entry idx on. An entry whose retry finds no file stays in the table and
\* the loop goes on; the first entry whose retry finds a file is removed and
\* ends the loop.
RECURSIVE SubstituteLoop(_, _, _, _)
SubstituteLoop(table, idx, path, candidateFile) ==
    IF idx > Len(table)
    THEN [fileFound |-> FALSE, candidateFile |-> candidateFile, FileSubstitutes |-> table]
    ELSE IF table[idx].MistypedFilepath = path
         THEN LET retry == GlobCaseInsensitive(DiskFiles, table[idx].ActualFilepath)
              IN  IF retry = {}
                  THEN SubstituteLoop(table, idx + 1, path, retry)
                  ELSE [fileFound |-> TRUE, candidateFile |-> retry,
                        FileSubstitutes |-> RemoveBySwap(table, idx)]
         ELSE SubstituteLoop(table, idx + 1, path, candidateFile)

\* ParseIndexHtml: "for idx, v := range fileExceptions.MissingFiles" from the
\* entry idx on. The range is over the slice as it was when the loop started
\* (array, all of it), while fileExceptions.MissingFiles is the first length
\* elements of the same array: a match writes array[idx], which is an index
\* out of range once the slice is shorter than idx, and shortens the slice.
\* No match ends the loop.
RECURSIVE MissingLoop(_, _, _, _, _)
MissingLoop(array, length, idx, path, fileTrulyMissing) ==
    IF idx > Len(array)
    THEN [panic |-> FALSE, fileTrulyMissing |-> fileTrulyMissing,
          MissingFiles |-> SubSeq(array, 1, length)]
    ELSE IF array[idx].Filepath = path
         THEN IF idx > length
              THEN [panic |-> TRUE, fileTrulyMissing |-> FALSE,
                    MissingFiles |-> SubSeq(array, 1, length)]
              ELSE MissingLoop([array EXCEPT ![idx] = array[length]], length - 1,
                               idx + 1, path, FALSE)
         ELSE MissingLoop(array, length, idx + 1, path, fileTrulyMissing)

\* Of two paths that differ in the case of letters only, is a the first in
\* the order of filepath.Glob (upper case before lower case)?
GlobBefore(a, b) ==
    LET i == CHOOSE k \in 1..Len(a) : a[k] # b[k] /\ \A j \in 1..(k - 1) : a[j] = b[j]
    IN  ToUpperChar(a[i]) = a[i]

\* candidateFile[0]
FirstCandidate(candidateFile) ==
    CHOOSE f \in candidateFile : \A g \in candidateFile \ {f} : GlobBefore(f.path, g.path)

\* ParseIndexHtml, from "modifiedVolumePath := candidateFile[0][len(root):]"
\* to the end of the iteration
BuildAndInsert(link, candidateFile, exceptions) ==
    LET vol == manifest[laIdx + 1]
        partNumber == TrimSpace(link.partNumber)
        f == FirstCandidate(candidateFile)
        cacheKey == vol.name \o <<"/", "/">> \o f.path
        md5Checksum == IF programFlags.GenerateMD5
                       THEN Md5Of(md5Store, cacheKey, f)
                       ELSE EmptyStr
        store == IF programFlags.GenerateMD5
                 THEN StoreAfterMd5(md5Store, cacheKey, f)
                 ELSE md5Store
        newDocument == BuildNewLocalDocument(
                           link.title, partNumber, f.path,
                           sFileScheme \o vol.name \o <<"/">> \o f.path,
                           md5Checksum)
        key == IndexKey(md5Checksum, partNumber, link.title, newDocument.Format)
    IN  IF newDocument.Format = <<"?", "?", "?">>
        THEN LaStepEx("fatal", laIdx, laCategory, curIndex, laLink, laSub, idxMap,
                      catMap, extraMap, mergePending, masterMap, store, laOutput,
                      exceptions, EmptyStr)
        ELSE LaStepEx("parse", laIdx, laCategory, curIndex, laLink + 1, laSub,
                      ParseIndexInsert(idxMap, key, newDocument), catMap, extraMap,
                      mergePending, masterMap, store, laOutput, exceptions, EmptyStr)

\* ParseIndexHtml: one iteration of "for _, match := range title_matches".
\* The title of a link is the text TidyDocumentTitle returned for it, and its
\* target is its path in the volume (modifiedVolumePathInHTML).
ParseLink ==
    /\ laPc = "parse"
    /\ laLink < Len(curIndex)
    /\ LET link == curIndex[laLink + 1]
           candidateFile == GlobCaseInsensitive(DiskFiles, link.target)
           substituted == SubstituteLoop(fileExceptions.FileSubstitutes, 1,
                                         link.target, candidateFile)
           missing == MissingLoop(fileExceptions.MissingFiles,
                                  Len(fileExceptions.MissingFiles), 1, link.target,
                                  TRUE)
       IN  IF candidateFile = {}
           THEN IF substituted.fileFound
                THEN \* more than one file found by the retry is not looked at
                     BuildAndInsert(link, substituted.candidateFile,
                                    [fileExceptions EXCEPT
                                        !.FileSubstitutes = substituted.FileSubstitutes])
                ELSE IF missing.panic
                THEN \* index out of range
                     LaStepEx("panic", laIdx, laCategory, curIndex, laLink, laSub,
                              idxMap, catMap, extraMap, mergePending, masterMap,
                              md5Store, laOutput,
                              [fileExceptions EXCEPT
                                  !.MissingFiles = missing.MissingFiles], EmptyStr)
                ELSE \* continue, after "MISSING file" if the file is truly missing
                     LaStepEx("parse", laIdx, laCategory, curIndex, laLink + 1,
                              laSub, idxMap, catMap, extraMap, mergePending,
                              masterMap, md5Store, laOutput,
                              [fileExceptions EXCEPT
                                  !.MissingFiles = missing.MissingFiles],
                              IF missing.fileTrulyMissing THEN sMISSINGfile
                              ELSE EmptyStr)
           ELSE IF Cardinality(candidateFile) # 1
           THEN LaFatal(md5Store)
           ELSE BuildAndInsert(link, candidateFile, fileExceptions)

\* ParseIndexHtml returns its documentsMap: to main through ProcessArchive for
\* a regular volume, to the range loop of ProcessCategory* otherwise.
ReturnIndex ==
    /\ laPc = "parse"
    /\ laLink = Len(curIndex)
    /\ LaStep(IF laCategory = "AC_Regular" THEN "merge" ELSE "submerge", laIdx,
              laCategory, curIndex, laLink, laSub, idxMap, catMap, idxMap,
              DOMAIN idxMap, masterMap, md5Store, laOutput)

\* ProcessCategory*: one iteration of "for k, v := range extraDocumentsMap"
SubMergeEntry ==
    /\ laPc = "submerge"
    /\ \E k \in mergePending :
          LaStep("submerge", laIdx, laCategory, curIndex, laLink, laSub, idxMap,
                 CategoryMergeInsert(catMap, k, extraMap[k]), extraMap,
                 mergePending \ {k}, masterMap, md5Store, laOutput)

\* ProcessCategory*: "for _, idx := range links" takes the next sub-index, or
\* ends and documentsMap is returned to main.
NextSubIndex ==
    /\ \/ laPc = "submerge" /\ mergePending = {}
       \/ laPc = "custom" /\ laLink = Len(manifest[laIdx + 1].top)
    /\ LET vol == manifest[laIdx + 1]
       IN  IF laSub < Len(vol.subs)
           THEN EnterParseIndexHtml(laCategory, vol.subs[laSub + 1], laSub + 1, catMap)
           ELSE LaStep("merge", laIdx, laCategory, curIndex, laLink, laSub, idxMap,
                       catMap, catMap, DOMAIN catMap, masterMap, md5Store, laOutput)

\* main: one iteration of "for k, v := range extraDocumentsMap"
MainMergeEntry ==
    /\ laPc = "merge"
    /\ \E k \in mergePending :
          LaStep("merge", laIdx, laCategory, curIndex, laLink, laSub, idxMap,
                 catMap, extraMap, mergePending \ {k},
                 MainMergeInsert(masterMap, k, extraMap[k]), md5Store, laOutput)

\* Mutation: the YAML file and the store are written after every volume.
FinishVolume_WritesYaml ==
    /\ laPc = "merge"
    /\ mergePending = {}
    /\ LaStep("next", laIdx + 1, laCategory, curIndex, laLink, laSub, idxMap,
              catMap, extraMap, mergePending, masterMap, md5Store,
              <<[yaml |-> masterMap,
                 md5Cache |-> IF md5Store.Active /\ md5Store.Dirty
                              THEN <<md5Store.Data>> ELSE <<>>]>>)

\* main: the range loop over extraDocumentsMap ends, on to the next entry
FinishVolume ==
    /\ laPc = "merge"
    /\ mergePending = {}
    /\ LaStep("next", laIdx + 1, laCategory, curIndex, laLink, laSub, idxMap,
              catMap, extraMap, mergePending, masterMap, md5Store, laOutput)

\* main: yaml.Marshal or os.WriteFile fails at the end, log.Fatal
WriteYamlFails ==
    /\ laPc = "next"
    /\ laIdx = Len(manifest)
    /\ LaFatal(md5Store)

\* Mutation: the store is written whether or not it has been modified.
Save_IgnoresDirty(thing) == IF thing.Active THEN <<thing.Data>> ELSE <<>>

\* Store.Save: the file the store is written to, if it is written
Save(thing) == IF thing.Active /\ thing.Dirty THEN <<thing.Data>> ELSE <<>>

\* main: every entry is done, the YAML file is written and the store is saved
WriteYaml ==
    /\ laPc = "next"
    /\ laIdx = Len(manifest)
    /\ LaStep("done", laIdx, laCategory, curIndex, laLink, laSub, idxMap, catMap,
              extraMap, mergePending, masterMap, md5Store,
              <<[yaml |-> masterMap, md5Cache |-> Save(md5Store)]>>)

----------------------------------------------------------------------------
(* Inputs of find-locally-unique                                           *)

MaxLocalDocs == 2      \* entries in the local source
MaxRemoteDocs == 2     \* entries in the remote source
MaxEntries == 2        \* entries per source of a standalone merge
MaxSources == 2        \* sources of a standalone merge

\* The entries a local source may hold, by the key they have in the YAML file.
LocalEntries ==
    (sM1 :> Doc(sPDF, sM1, sTitle, <<"E", "K", "-", "1">>,
                sBitsavers \o <<"a", ".", "p", "d", "f">>))
 @@ (sM2 :> Doc(sPDF, sM2, sTitle, EmptyStr, <<"x", "/", "b", ".", "p", "d", "f">>))
 @@ (sM3 :> Doc(sPDF, sM3, sTitle, <<"E", "K", ".", "1">>,
                <<"x", "/", "c", ".", "p", "d", "f">>))
 @@ (sM4 :> Doc(sPDF, sM4, sTitle, <<"Z", "Z">>,
                <<"x", "/", "a", ".", "p", "d", "f">>))
 @@ (<<"q">> :> Doc(sPDF, sM1, sTitle, <<"Q">>,
                <<"x", "/", "d", ".", "p", "d", "f">>))
 @@ (EmptyStr :> Doc(sPDF, EmptyStr, sTitle, <<"N">>,
                <<"y">> \o sBitsavers \o <<"e", ".", "p", "d", "f">>))
 @@ (<<"m", "5">> :> Doc(sPDF, <<"m", "5">>, sTitle, <<"Y", "Y">>,
                <<"x", "/", "b", ".", "p", "d", "f">>))

\* The entries a remote source may hold.
RemoteEntries ==
    (sM1 :> Doc(sPDF, sM1, sTitle, <<"E", "K", "-", "1">>,
                <<"r", "/", "a", ".", "p", "d", "f">>))
 @@ (sM9 :> Doc(sPDF, sM9, sTitle, EmptyStr,
                <<"r", "/", "z", ".", "p", "d", "f">>))
 @@ (<<"k">> :> Doc(sPDF, EmptyStr, sTitle, <<"Z", "-", "Z">>,
                <<"r", "/", "q", ".", "p", "d", "f">>))

\* The entries the sources of a standalone merge may hold: the first two get
\* the same key from PickKey and have different checksums.
MergeEntries ==
    (<<"k", "1">> :> Doc(sPDF, sM1, sTitle, EmptyStr, <<"a", ".", "p", "d", "f">>))
 @@ (sM1 :> Doc(sPDF, EmptyStr, sTitle, EmptyStr, <<"b", ".", "p", "d", "f">>))
 @@ (EmptyStr :> Doc(sPDF, EmptyStr, sTitle, <<"E", "K", "-", "1">>,
                <<"c", ".", "p", "d", "f">>))

Restrict(f, S) == [x \in S |-> f[x]]

SourcesOf(entries, max) ==
    { Restrict(entries, S) : S \in {T \in SUBSET DOMAIN entries : Cardinality(T) <= max} }

SourceLists(entries, maxEntries, maxSources) ==
    UNION { [1..n -> SourcesOf(entries, maxEntries)] : n \in 1..maxSources }

FluCommonStart ==
    /\ bmIdx = 0
    /\ bmPending = {}
    /\ documents = EmptyMap
    /\ localDocuments = EmptyMap
    /\ remoteDocuments = EmptyMap
    /\ mapRemoteDocsByPartNum = EmptyMap
    /\ mapRemoteDocsByFilename = EmptyMap
    /\ idxPending = {}
    /\ clsPending = {}
    /\ counts = ZeroCounts
    /\ uniqueDocuments = EmptyMap
    /\ yamlOutput = <<>>

\* main of find-locally-unique after flag.Parse, entering the first
\* BuildMapOfDocuments
FluStart ==
    /\ fluPc = "local"
    /\ localYamlFiles \in {<<src>> : src \in SourcesOf(LocalEntries, MaxLocalDocs)}
    /\ remoteYamlFiles \in {<<src>> : src \in SourcesOf(RemoteEntries, MaxRemoteDocs)}
    /\ writeOutputYaml \in BOOLEAN
    /\ bmFilenames = localYamlFiles
    /\ FluCommonStart

\* BuildMapOfDocuments called on a list of sources followed by itself
MergeStart ==
    /\ fluPc = "merge"
    /\ localYamlFiles = <<>>
    /\ remoteYamlFiles = <<>>
    /\ writeOutputYaml = FALSE
    /\ \E S \in SourceLists(MergeEntries, MaxEntries, MaxSources) :
          bmFilenames = S \o S
    /\ FluCommonStart

FluOff ==
    /\ fluPc = "off"
    /\ localYamlFiles = <<>>
    /\ remoteYamlFiles = <<>>
    /\ writeOutputYaml = FALSE
    /\ bmFilenames = <<>>
    /\ FluCommonStart

FluNext ==
    \/ BMReadFile
    \/ BMMergeEntry
    \/ ReturnLocalDocuments
    \/ ReturnRemoteDocuments
    \/ IndexRemoteDocument
    \/ ClassifyLocalDocument
    \/ WriteUniqueYaml

MergeNext ==
    \/ BMReadFile
    \/ BMMergeEntry
    \/ ReturnMergedDocuments

----------------------------------------------------------------------------
(* Inputs of local-archive-to-yaml                                         *)

MaxVolumes == 2        \* archive lines of the indirect file

Markers(index, INDEX, custom, html, metadata) ==
    [index_dot_htm |-> index, INDEX_dot_HTM |-> INDEX, custom_indicator |-> custom,
     dir_HTML |-> html, dir_metadata |-> metadata]

AllMarkers ==
    [index_dot_htm : BOOLEAN, INDEX_dot_HTM : BOOLEAN, custom_indicator : BOOLEAN,
     dir_HTML : BOOLEAN, dir_metadata : BOOLEAN]

Link(target, partNumber, title) ==
    [target |-> target, partNumber |-> partNumber, title |-> title]

linkA == Link(<<"a", ".", "p", "d", "f">>, <<"P", " ">>, sTitle)           \* the file a.pdf
linkB == Link(<<"b", ".", "p", "d", "f">>, <<"P">>, sTitle)                \* the file B.PDF, same content
linkC == Link(<<"c", ".", "p", "d", "f">>, <<"P">>, <<"U">>)               \* a third file, same part number
linkC2 == Link(<<"c", ".", "p", "d", "f">>, EmptyStr, sTitle)              \* no part number
linkMissing == Link(<<"z", ".", "p", "d", "f">>, <<"P">>, sTitle)          \* no such file
linkMissing2 == Link(<<"z", ".", "p", "d", "f">>, <<"R">>, sTitle)         \* the same, again
linkTwo == Link(<<"d", ".", "p", "d", "f">>, <<"Q">>, sTitle)              \* d.pdf and D.pdf
linkXyz == Link(<<"e", ".", "x", "y", "z">>, <<"Q">>, sTitle)              \* unknown file type

Volume(name, markers, top, subs) ==
    [type |-> "PathAndVolume", name |-> name, markers |-> markers, top |-> top,
     subs |-> subs]

mRegular == Markers(TRUE, FALSE, FALSE, FALSE, FALSE)
mHTML == Markers(FALSE, TRUE, FALSE, TRUE, FALSE)
mMetadata == Markers(TRUE, FALSE, FALSE, FALSE, TRUE)
mCustom == Markers(TRUE, FALSE, TRUE, FALSE, FALSE)
mNone == Markers(FALSE, FALSE, FALSE, FALSE, FALSE)

\* The volumes the manifests of several volumes are made of.
Volumes ==
    { Volume(<<"V">>, mRegular, <<linkA, linkB, linkC>>, <<>>),
      Volume(<<"W">>, mRegular, <<linkMissing, linkA, linkC2>>, <<>>),
      Volume(<<"V">>, mHTML, <<>>, << <<linkA>>, <<linkB, linkC>> >>),
      Volume(<<"W">>, mMetadata, <<>>, << <<linkC>>, <<linkC2, linkA>> >>),
      Volume(<<"V">>, mCustom, <<linkA, linkC>>, << <<linkC>> >>),
      Volume(<<"V">>, mNone, <<linkA>>, <<>>),
      Volume(<<"W">>, mRegular, <<linkA, linkTwo>>, <<>>),
      Volume(<<"W">>, mRegular, <<linkXyz>>, <<>>),
      Volume(<<"W">>, mMetadata, <<>>, <<>>) }

\* One volume with the same content under every combination of markers.
MarkerVolumes ==
    { Volume(<<"V">>, m, <<linkA, linkB>>, << <<linkC>>, <<linkA>> >>) : m \in AllMarkers }

Manifests ==
    UNION { [1..n -> Volumes] : n \in 0..MaxVolumes } \cup { <<v>> : v \in MarkerVolumes }

MaxExceptions == 2

pathZ == <<"z", ".", "p", "d", "f">>
pathY == <<"y", ".", "p", "d", "f">>

\* What the indirect file may declare before a volume: z.pdf is not in any
\* volume, and is declared missing, or mistyped for a.pdf (in every volume),
\* for y.pdf (in none) or for d.pdf (in every volume, as d.pdf and as D.pdf)
ExceptionItems ==
    { MissingFile(pathZ), MissingFile(pathY),
      SubstituteFile(pathZ, <<"a", ".", "p", "d", "f">>),
      SubstituteFile(pathZ, pathY),
      SubstituteFile(pathZ, <<"d", ".", "p", "d", "f">>) }

\* Regular volumes with one link to z.pdf, with two, with none
ExceptionVolumes ==
    { Volume(<<"W">>, mRegular, <<linkMissing, linkA, linkC2>>, <<>>),
      Volume(<<"X">>, mRegular, <<linkMissing, linkMissing2, linkB>>, <<>>),
      Volume(<<"V">>, mRegular, <<linkA, linkB, linkC>>, <<>>) }

\* Indirect files with declarations: some declarations and one volume or two,
\* or a declaration between two volumes or after one
ExceptionManifests ==
    LET pre == UNION {[1..n -> ExceptionItems] : n \in 0..MaxExceptions}
    IN  {p \o <<v>> : p \in pre, v \in ExceptionVolumes}
        \cup {p \o <<v, w>> : p \in pre, v \in ExceptionVolumes, w \in ExceptionVolumes}
        \cup {<<v, e, w>> : v \in ExceptionVolumes, e \in ExceptionItems,
                            w \in ExceptionVolumes}
        \cup {<<v, e>> : v \in ExceptionVolumes, e \in ExceptionItems}

\* The cache file of an earlier run over the volume V
CachedData ==
    [k \in {<<"V", "/", "/">> \o f.path : f \in DiskFiles} |->
        (CHOOSE f \in DiskFiles : k = <<"V", "/", "/">> \o f.path).md5]

\* Store.Init: no --md5-cache (the store is not active), an empty cache file,
\* a cache file with entries
StoreInits ==
    { [Active |-> FALSE, Dirty |-> FALSE, Data |-> EmptyMap],
      [Active |-> TRUE, Dirty |-> FALSE, Data |-> EmptyMap],
      [Active |-> TRUE, Dirty |-> FALSE, Data |-> CachedData] }

\* main of local-archive-to-yaml after flag.Parse, Store.Init and
\* ParseIndirectFile
LaStart ==
    /\ laPc = "next"
    /\ \/ manifest \in Manifests /\ md5Store \in StoreInits
       \/ manifest \in ExceptionManifests
          /\ md5Store = [Active |-> FALSE, Dirty |-> FALSE, Data |-> EmptyMap]
    /\ fileExceptions = NoExceptions
    /\ laLog = EmptyStr
    /\ programFlags \in [GenerateMD5 : BOOLEAN]
    /\ laIdx = 0
    /\ laCategory = "AC_Undefined"
    /\ curIndex = <<>>
    /\ laLink = 0
    /\ laSub = 0
    /\ idxMap = EmptyMap
    /\ catMap = EmptyMap
    /\ extraMap = EmptyMap
    /\ mergePending = {}
    /\ masterMap = EmptyMap
    /\ laOutput = <<>>

LaOff ==
    /\ laPc = "off"
    /\ manifest = <<>>
    /\ programFlags = [GenerateMD5 |-> FALSE]
    /\ laIdx = 0
    /\ laCategory = "AC_Undefined"
    /\ curIndex = <<>>
    /\ laLink = 0
    /\ laSub = 0
    /\ idxMap = EmptyMap
    /\ catMap = EmptyMap
    /\ extraMap = EmptyMap
    /\ mergePending = {}
    /\ masterMap = EmptyMap
    /\ md5Store = [Active |-> FALSE, Dirty |-> FALSE, Data |-> EmptyMap]
    /\ laOutput = <<>>
    /\ fileExceptions = NoExceptions
    /\ laLog = EmptyStr

ArchiveNext ==
    \/ ProcessArchive
    \/ MainException
    \/ CustomDirectLink
    \/ ParseLink
    \/ ReturnIndex
    \/ SubMergeEntry
    \/ NextSubIndex
    \/ MainMergeEntry
    \/ FinishVolume
    \/ WriteYaml
    \/ WriteYamlFails

----------------------------------------------------------------------------
(* internal/document: DetermineDocumentFormat                              *)

sUnknownFormat == <<"?", "?", "?">>

\* KnownFileTypes of internal/document
DocumentKnownFileTypes ==
    { <<"P", "D", "F">>, <<"T", "X", "T">>, <<"M", "E", "M">>, <<"R", "N", "O">>, <<"P", "S">>, <<"H", "T", "M">>, <<"H", "T", "M", "L">>,
      <<"Z", "I", "P">>, <<"L", "N", "3">>, <<"T", "I", "F">>, <<"J", "P", "G">>, <<"J", "P", "E", "G">>, <<"P", "N", "G">>, <<"D", "O", "C">> }

FileTypesToRecategorise ==
    (<<"H", "T", "M">> :> <<"H", "T", "M", "L">>) @@ (<<"J", "P", "2">> :> <<"J", "P", "E", "G">>)
    @@ (<<"J", "P", "G">> :> <<"J", "P", "E", "G">>) @@ (<<"T", "I", "F">> :> <<"T", "I", "F", "F">>)

\* strings.TrimPrefix(s, ".")
TrimPrefixDot(s) == IF s # EmptyStr /\ Head(s) = "." THEN Tail(s) ELSE s

\* The format and whether the error is non-nil
DetermineDocumentFormat(filename) ==
    LET filetype0 == TrimPrefixDot(ToUpper(Ext(filename)))
        filetype == IF filetype0 \in DOMAIN FileTypesToRecategorise
                    THEN FileTypesToRecategorise[filetype0]
                    ELSE filetype0
    IN  IF filetype \in DocumentKnownFileTypes
        THEN [format |-> filetype, err |-> FALSE]
        ELSE [format |-> sUnknownFormat, err |-> TRUE]

\* The filenames DetermineDocumentFormat is called on: a path and a file type
FormatBases == { <<"f", "o", "o", "/", "a", "b", "c", "d">>, <<"a">>, <<"v", ".", "1", "/", "b">> }

FormatExts ==
    LET upper == DocumentKnownFileTypes \cup DOMAIN FileTypesToRecategorise
                 \cup { <<"T", "I", "F", "F">>, <<"J", "P", "E">>, <<"X", "Y", "Z">>, <<"a", "n", "_", "u", "n", "r", "e", "c", "o", "g", "n", "i", "s", "e", "d", "_", "F", "I", "L", "E", "T", "Y", "P", "E">> }
    IN  upper \cup {ToLower(e) : e \in upper} \cup {EmptyStr}

FormatFilename(arg) ==
    IF arg.ext = EmptyStr THEN arg.base ELSE arg.base \o <<".">> \o arg.ext

CallDetermineDocumentFormat ==
    /\ fnPc = "format"
    /\ fnResult' = DetermineDocumentFormat(FormatFilename(fnArg))
    /\ fnPc' = "format_done"
    /\ UNCHANGED <<fnArg, keyDoc, keyResult, keyPc, fluVars, laVars>>

----------------------------------------------------------------------------
(* local-archive-to-yaml: TidyDocumentTitle                                *)

sBR == <<"<", "B", "R", ">">>
sDotSpace == <<".", " ">>

\* strings.HasPrefix
HasPrefix(s, prefix) ==
    Len(s) >= Len(prefix) /\ SubSeq(s, 1, Len(prefix)) = prefix

\* The last n characters of s removed from its front: s[n:]
Drop(s, n) == SubSeq(s, n + 1, Len(s))

\* strings.Replace(title, "\r\n", "", -1)
RECURSIVE RemoveCRLF(_)
RemoveCRLF(s) ==
    IF s = EmptyStr THEN s
    ELSE IF HasPrefix(s, <<"\r", "\n">>) THEN RemoveCRLF(Drop(s, 2))
    ELSE <<Head(s)>> \o RemoveCRLF(Tail(s))

\* strings.Join(strings.Fields(s), " ")
RECURSIVE JoinFields(_)
JoinFields(s) ==
    LET t == TrimLeft(s)
    IN  IF t = EmptyStr THEN EmptyStr
        ELSE IF IsSpace(Head(s))
             THEN <<" ">> \o JoinFields(t)
             ELSE <<Head(s)>> \o JoinFields(Tail(s))

CollapseWhitespace(s) == JoinFields(TrimLeft(s))

\* What is left of s after the longest (\s*<BR>\s*)*\s* at its front
RECURSIVE AfterBRRun(_)
AfterBRRun(s) ==
    LET t == TrimLeft(s)
    IN  IF HasPrefix(t, sBR) THEN AfterBRRun(Drop(t, Len(sBR))) ELSE t

\* regexp `\s*<BR>(?:\s*<BR>\s*)*\s*` ReplaceAllString(title, ". ")
RECURSIVE ReplaceBRRuns(_)
ReplaceBRRuns(s) ==
    IF s = EmptyStr THEN s
    ELSE LET t == TrimLeft(s)
         IN  IF HasPrefix(t, sBR)
             THEN sDotSpace \o ReplaceBRRuns(AfterBRRun(Drop(t, Len(sBR))))
             ELSE <<Head(s)>> \o ReplaceBRRuns(Tail(s))

\* Replacement of every <BR> by itself
RECURSIVE ReplaceEachBR(_)
ReplaceEachBR(s) ==
    IF s = EmptyStr THEN s
    ELSE LET t == TrimLeft(s)
         IN  IF HasPrefix(t, sBR)
             THEN sDotSpace \o ReplaceEachBR(TrimLeft(Drop(t, Len(sBR))))
             ELSE <<Head(s)>> \o ReplaceEachBR(Tail(s))

\* Mutation: the pattern is `\s*<BR>\s*`, without the repetition.
TidyDocumentTitle_EachBR(untidyTitle) ==
    ReplaceEachBR(CollapseWhitespace(RemoveCRLF(TrimSpace(untidyTitle))))

TidyDocumentTitle(untidyTitle) ==
    ReplaceBRRuns(CollapseWhitespace(RemoveCRLF(TrimSpace(untidyTitle))))

\* Titles are given as the pieces they are made of.
RECURSIVE Flatten(_)
Flatten(pieces) ==
    IF pieces = <<>> THEN EmptyStr ELSE Head(pieces) \o Flatten(Tail(pieces))

MaxTitlePieces == 4

sSP == <<" ">>
sCR == <<"\r">>
sLF == <<"\n">>
sHello == <<"H", "e", "l", "l", "o">>
sWorld == <<"W", "o", "r", "l", "d">>
sBang == <<"!">>

TitlePieces == { <<"a">>, sSP, sCR, sLF, sBR }

\* The titles of TestTidyDocumentTitle
TitleExamples ==
    { <<sSP, sSP, sHello, sSP, sWorld, sSP, sSP>>,
      <<sHello, sCR, sLF, sWorld>>,
      <<sHello, sSP, sSP, sSP, sSP, sSP, sWorld>>,
      <<sHello, sSP, sBR, sSP, sWorld>>,
      <<sHello, sSP, sBR, sBR, sSP, sWorld>>,
      <<sHello, sSP, sBR, sSP, sBR, sSP, sWorld>>,
      <<sHello, sSP, sWorld, sSP, sBR>>,
      <<sSP, sSP, sHello, sSP, sBR, sSP, sSP, sWorld, sSP, sSP, sBR, sBR, sSP,
        sBang, sSP, sSP>>,
      <<sBR, sBR, sBR>>,
      <<sBR, sHello, sSP, sWorld, sBR>>,
      <<sHello, sWorld>> }

TitleInputs ==
    TitleExamples \cup UNION { [1..n -> TitlePieces] : n \in 0..MaxTitlePieces }

CallTidyDocumentTitle ==
    /\ fnPc = "tidy"
    /\ fnResult' = TidyDocumentTitle(Flatten(fnArg))
    /\ fnPc' = "tidy_done"
    /\ UNCHANGED <<fnArg, keyDoc, keyResult, keyPc, fluVars, laVars>>

----------------------------------------------------------------------------
(* local-archive-to-yaml: the indirect file                                *)

sQuote == <<"\"">>

\* Length of the longest prefix of s matching [^\s"]+
RECURSIVE WordLen(_)
WordLen(s) ==
    IF s = EmptyStr \/ IsSpace(Head(s)) \/ Head(s) = "\"" THEN 0
    ELSE 1 + WordLen(Tail(s))

\* Index of the first double quote of s at or after i, 0 if there is none
RECURSIVE QuoteFrom(_, _)
QuoteFrom(s, i) ==
    IF i > Len(s) THEN 0
    ELSE IF s[i] = "\"" THEN i
    ELSE QuoteFrom(s, i + 1)

\* regexp `[^\s"]+|"([^"]*)"` FindAllString(line, -1); <<>> stands for nil
RECURSIVE FindAllTokens(_)
FindAllTokens(s) ==
    IF s = EmptyStr THEN <<>>
    ELSE IF WordLen(s) > 0
         THEN <<SubSeq(s, 1, WordLen(s))>> \o FindAllTokens(Drop(s, WordLen(s)))
    ELSE IF Head(s) = "\"" /\ QuoteFrom(s, 2) > 0
         THEN <<SubSeq(s, 1, QuoteFrom(s, 2))>> \o FindAllTokens(Drop(s, QuoteFrom(s, 2)))
    ELSE FindAllTokens(Tail(s))

\* StripOptionalLeadingAndTrailingDoubleQuotes, for a candidate of two
\* characters or more or without a quote (a token is never empty and never a
\* lone quote; the function indexes out of range for those)
StripOptionalLeadingAndTrailingDoubleQuotes(candidate) ==
    IF Len(candidate) >= 2 /\ candidate[1] = "\"" /\ candidate[Len(candidate)] = "\""
    THEN SubSeq(candidate, 2, Len(candidate) - 1)
    ELSE candidate

\* strings.Split(path, "/")
RECURSIVE SplitPath(_)
SplitPath(path) ==
    LET i == QuoteFrom([k \in 1..Len(path) |-> IF path[k] = "/" THEN "\"" ELSE "x"], 1)
    IN  IF i = 0 THEN <<path>>
        ELSE <<SubSeq(path, 1, i - 1)>> \o SplitPath(Drop(path, i))

\* filepath.Clean: the elements kept, given those already kept
RECURSIVE CleanElements(_, _, _)
CleanElements(elems, out, rooted) ==
    IF elems = <<>> THEN out
    ELSE LET e == Head(elems)
             rest == Tail(elems)
         IN  IF e = EmptyStr \/ e = <<".">> THEN CleanElements(rest, out, rooted)
             ELSE IF e = <<".", ".">>
                  THEN IF out # <<>> /\ out[Len(out)] # <<".", ".">>
                       THEN CleanElements(rest, SubSeq(out, 1, Len(out) - 1), rooted)
                       ELSE IF rooted THEN CleanElements(rest, out, rooted)
                       ELSE CleanElements(rest, Append(out, e), rooted)
             ELSE CleanElements(rest, Append(out, e), rooted)

RECURSIVE JoinPath(_)
JoinPath(elems) ==
    IF elems = <<>> THEN EmptyStr
    ELSE IF Len(elems) = 1 THEN elems[1]
    ELSE elems[1] \o <<"/">> \o JoinPath(Tail(elems))

\* filepath.Clean
Clean(path) ==
    LET rooted == path # EmptyStr /\ path[1] = "/"
        out == JoinPath(CleanElements(SplitPath(path), <<>>, rooted))
    IN  IF rooted THEN <<"/">> \o out
        ELSE IF out = EmptyStr THEN <<".">> ELSE out

\* filepath.Dir
Dir(path) == Clean(SubSeq(path, 1, LastSlash(path, Len(path))))

----------------------------------------------------------------------------
(* ParseIndirectFile that returns []PathAndVolume (part_001, line 1553)    *)

\* Mutation: the quotes of the third token are kept.
ParseLine2_RootNotStripped(line) ==
    LET quotedString == FindAllTokens(line)
        q0 == StripOptionalLeadingAndTrailingDoubleQuotes(quotedString[1])
    IN  IF Len(line) = 0 THEN [err |-> FALSE, entries |-> <<>>]
        ELSE IF Len(quotedString) \notin {2, 3} THEN [err |-> TRUE, entries |-> <<>>]
        ELSE [err |-> FALSE,
              entries |-> <<[Path |-> q0, Volume |-> quotedString[2],
                             Root |-> IF Len(quotedString) = 2 THEN Dir(q0)
                                      ELSE quotedString[3]]>>]

\* Body of "for scanner.Scan()": an error, or the entries appended for the line
ParseLine2(line) ==
    LET quotedString == FindAllTokens(line)
        q0 == StripOptionalLeadingAndTrailingDoubleQuotes(quotedString[1])
    IN  IF Len(line) = 0 THEN [err |-> FALSE, entries |-> <<>>]
        ELSE IF quotedString = <<>> THEN [err |-> TRUE, entries |-> <<>>]
        ELSE IF Len(quotedString) = 1 THEN [err |-> TRUE, entries |-> <<>>]
        ELSE IF Len(quotedString) = 2
             THEN [err |-> FALSE,
                   entries |-> <<[Path |-> q0, Volume |-> quotedString[2],
                                  Root |-> Dir(q0)]>>]
        ELSE IF Len(quotedString) = 3
             THEN [err |-> FALSE,
                   entries |-> <<[Path |-> q0, Volume |-> quotedString[2],
                                  Root |-> StripOptionalLeadingAndTrailingDoubleQuotes(
                                               quotedString[3])]>>]
        ELSE [err |-> TRUE, entries |-> <<>>]

\* The loop over the lines: it returns at the first error with what it has
RECURSIVE ParseLines2(_, _)
ParseLines2(lines, result) ==
    IF lines = <<>> THEN [result |-> result, err |-> FALSE]
    ELSE LET r == ParseLine2(Head(lines))
         IN  IF r.err THEN [result |-> result, err |-> TRUE]
             ELSE ParseLines2(Tail(lines), result \o r.entries)

\* The file can be opened; lines are what bufio.Scanner yields.
ParseIndirectFile2(lines) == ParseLines2(lines, <<>>)

----------------------------------------------------------------------------
(* ParseIndirectFile that returns []IndirectFileEntry (part_001, line 685)  *)

sArchive == <<"a", "r", "c", "h", "i", "v", "e">>
sIncorrectFilepath == <<"i", "n", "c", "o", "r", "r", "e", "c", "t", "-", "f", "i", "l", "e", "p", "a", "t", "h">>
sTrulyMissingFile == <<"t", "r", "u", "l", "y", "-", "m", "i", "s", "s", "i", "n", "g", "-", "f", "i", "l", "e">>
sSubstituteWith == <<"s", "u", "b", "s", "t", "i", "t", "u", "t", "e", "-", "w", "i", "t", "h">>

\* regexp `^\s*keyword\s*:\s*(.*)$` FindStringSubmatch: <<match[1]>>, or <<>>
\* if the line does not match
MatchKeyword(line, keyword) ==
    LET l == TrimLeft(line)
        afterKey == TrimLeft(Drop(l, Len(keyword)))
    IN  IF HasPrefix(l, keyword) /\ HasPrefix(afterKey, <<":">>)
        THEN <<TrimLeft(Tail(afterKey))>>
        ELSE <<>>

\* IndirectFileProcessPathAndVolume
IndirectFileProcessPathAndVolume(line) ==
    LET quotedString == FindAllTokens(line)
        q0 == StripOptionalLeadingAndTrailingDoubleQuotes(quotedString[1])
    IN  IF quotedString = <<>> THEN [err |-> TRUE, item |-> <<>>]
        ELSE IF Len(quotedString) = 1 THEN [err |-> TRUE, item |-> <<>>]
        ELSE IF Len(quotedString) = 2
             THEN [err |-> FALSE,
                   item |-> <<[type |-> "PathAndVolume", Path |-> q0,
                               VolumeName |-> quotedString[2]]>>]
        ELSE [err |-> TRUE, item |-> <<>>]

\* IndirectFileProcessMissingFile
IndirectFileProcessMissingFile(text) ==
    [err |-> FALSE, item |-> <<[type |-> "MissingFile", Filepath |-> text]>>]

\* Is there, at index i of s, \s+substitute-with\s+ ?
SubstituteWithAt(s, i) ==
    LET t == Drop(s, i - 1)
        u == TrimLeft(t)
        v == Drop(u, Len(sSubstituteWith))
    IN  /\ t # EmptyStr /\ IsSpace(Head(t))
        /\ HasPrefix(u, sSubstituteWith)
        /\ v # EmptyStr /\ IsSpace(Head(v))

\* IndirectFileProcessSubstituteFilepath: regexp
\* `^\s*(.*?)\s+substitute-with\s+(.*)\s*$`; without a match an empty
\* SubstituteFile is returned, and no error
IndirectFileProcessSubstituteFilepath(text) ==
    LET s == TrimLeft(text)
        at == {i \in 1..Len(s) : SubstituteWithAt(s, i)}
    IN  IF at = {}
        THEN [err |-> FALSE,
              item |-> <<[type |-> "SubstituteFile", MistypedFilepath |-> EmptyStr,
                          ActualFilepath |-> EmptyStr]>>]
        ELSE LET i == CHOOSE k \in at : \A j \in at : k <= j
                 rest == Drop(TrimLeft(Drop(s, i - 1)), Len(sSubstituteWith))
             IN  [err |-> FALSE,
                  item |-> <<[type |-> "SubstituteFile",
                              MistypedFilepath |-> SubSeq(s, 1, i - 1),
                              ActualFilepath |-> TrimLeft(rest)]>>]

\* Body of "for scanner.Scan()": the item appended for the line, if any. The
\* error of a handler is not looked at again: its item is not appended.
ParseLine(text) ==
    LET line == TrimSpace(text)
        handled ==
            IF MatchKeyword(line, sArchive) # <<>>
            THEN IndirectFileProcessPathAndVolume(MatchKeyword(line, sArchive)[1])
            ELSE IF MatchKeyword(line, sIncorrectFilepath) # <<>>
            THEN IndirectFileProcessSubstituteFilepath(
                     MatchKeyword(line, sIncorrectFilepath)[1])
            ELSE IF MatchKeyword(line, sTrulyMissingFile) # <<>>
            THEN IndirectFileProcessMissingFile(MatchKeyword(line, sTrulyMissingFile)[1])
            ELSE [err |-> FALSE, item |-> <<>>]    \* "Failed to understand line"
    IN  IF Len(line) = 0 \/ Head(line) = "#" THEN [err |-> FALSE, item |-> <<>>]
        ELSE [err |-> FALSE, item |-> IF handled.err THEN <<>> ELSE handled.item]

RECURSIVE ParseLines(_, _)
ParseLines(lines, result) ==
    IF lines = <<>> THEN [result |-> result, err |-> FALSE]
    ELSE LET r == ParseLine(Head(lines))
         IN  IF r.err THEN [result |-> result, err |-> TRUE]
             ELSE ParseLines(Tail(lines), result \o r.item)

\* The file can be opened; lines are what bufio.Scanner yields.
ParseIndirectFile(lines) == ParseLines(lines, <<>>)

----------------------------------------------------------------------------
(* Indirect files given to the two parsers                                 *)

MaxIndirectLines == 2

\* Lines of an indirect file of volumes, each with the number of its tokens
\* and, for a line of two or three tokens, what its fields are: the path
\* without its quotes, the volume, the third token as written, and the root
\* (the third token without its quotes, or the directory of the path)
VolumeLines ==
    { [text |-> <<>>, tokens |-> 0, path |-> <<>>, volume |-> <<>>,
       third |-> <<>>, root |-> <<>>],
      [text |-> <<" ">>, tokens |-> 0, path |-> <<>>, volume |-> <<>>,
       third |-> <<>>, root |-> <<>>],
      [text |-> <<"/", "p", "/", "a">>, tokens |-> 1, path |-> <<>>, volume |-> <<>>,
       third |-> <<>>, root |-> <<>>],
      [text |-> <<"/", "p", "/", "a", " ", "0", "1">>, tokens |-> 2, path |-> <<"/", "p", "/", "a">>, volume |-> <<"0", "1">>,
       third |-> <<>>, root |-> <<"/", "p">>],
      [text |-> <<"a", " ", "0", "1">>, tokens |-> 2, path |-> <<"a">>, volume |-> <<"0", "1">>,
       third |-> <<>>, root |-> <<".">>],
      [text |-> <<"\"", "/", "p", " ", "q", "/", "a", "\"", " ", "0", "2">>, tokens |-> 2, path |-> <<"/", "p", " ", "q", "/", "a">>, volume |-> <<"0", "2">>,
       third |-> <<>>, root |-> <<"/", "p", " ", "q">>],
      [text |-> <<"/", "p", "/", "a", " ", "0", "1", " ", "/", "r">>, tokens |-> 3, path |-> <<"/", "p", "/", "a">>, volume |-> <<"0", "1">>,
       third |-> <<<<"/", "r">>>>, root |-> <<"/", "r">>],
      [text |-> <<"/", "p", "/", "a", " ", "0", "1", " ", "\"", "/", "r", " ", "s", "\"">>, tokens |-> 3, path |-> <<"/", "p", "/", "a">>, volume |-> <<"0", "1">>,
       third |-> <<<<"\"", "/", "r", " ", "s", "\"">>>>, root |-> <<"/", "r", " ", "s">>],
      [text |-> <<"/", "p", "/", "a", " ", "0", "1", " ", "/", "r", " ", "x">>, tokens |-> 4, path |-> <<>>, volume |-> <<>>,
       third |-> <<>>, root |-> <<>>] }

\* Lines of an indirect file of entries, each with its kind and, for an
\* archive line, the number of tokens after the colon
EntryLines ==
    { [text |-> <<" ", " ">>,
       kind |-> "empty", tokens |-> 0],
      [text |-> <<"#", " ", "a", "r", "c", "h", "i", "v", "e", ":", " ", "/", "p", "/", "a">>,
       kind |-> "comment", tokens |-> 0],
      [text |-> <<"a", "r", "c", "h", "i", "v", "e", ":", " ", "/", "p", "/", "a", " ", "0", "1">>,
       kind |-> "archive", tokens |-> 2],
      [text |-> <<"a", "r", "c", "h", "i", "v", "e", ":", " ", "/", "p", "/", "a">>,
       kind |-> "archive", tokens |-> 1],
      [text |-> <<"a", "r", "c", "h", "i", "v", "e", " ", ":", " ", "\"", "/", "p", " ", "q", "/", "a", "\"", " ", "0", "2">>,
       kind |-> "archive", tokens |-> 2],
      [text |-> <<"a", "r", "c", "h", "i", "v", "e", ":", " ", "/", "p", "/", "a", " ", "0", "1", " ", "/", "r">>,
       kind |-> "archive", tokens |-> 3],
      [text |-> <<"t", "r", "u", "l", "y", "-", "m", "i", "s", "s", "i", "n", "g", "-", "f", "i", "l", "e", ":", " ", "x", "/", "y", ".", "p", "d", "f">>,
       kind |-> "missing", tokens |-> 0],
      [text |-> <<"i", "n", "c", "o", "r", "r", "e", "c", "t", "-", "f", "i", "l", "e", "p", "a", "t", "h", ":", " ", "a", " ", "b", ".", "p", "d", "f", " ", "s", "u", "b", "s", "t", "i", "t", "u", "t", "e", "-", "w", "i", "t", "h", " ", "c", ".", "p", "d", "f">>,
       kind |-> "substitute", tokens |-> 0],
      [text |-> <<"i", "n", "c", "o", "r", "r", "e", "c", "t", "-", "f", "i", "l", "e", "p", "a", "t", "h", ":", " ", "a", ".", "p", "d", "f">>,
       kind |-> "substitute", tokens |-> 0],
      [text |-> <<"v", "o", "l", "u", "m", "e", " ", "/", "p", "/", "a">>,
       kind |-> "junk", tokens |-> 0] }

SeqsUpTo(set, n) == UNION {[1..k -> set] : k \in 0..n}

TextOf(lines) == [i \in 1..Len(lines) |-> lines[i].text]

CallParseIndirectFile2 ==
    /\ fnPc = "indirect2"
    /\ fnResult' = ParseIndirectFile2(TextOf(fnArg))
    /\ fnPc' = "indirect2_done"
    /\ UNCHANGED <<fnArg, keyDoc, keyResult, keyPc, fluVars, laVars>>

CallParseIndirectFile ==
    /\ fnPc = "indirect"
    /\ fnResult' = ParseIndirectFile(TextOf(fnArg))
    /\ fnPc' = "indirect_done"
    /\ UNCHANGED <<fnArg, keyDoc, keyResult, keyPc, fluVars, laVars>>

----------------------------------------------------------------------------
(* internal/document: ValidateDate                                         *)

Digits == <<"0", "1", "2", "3", "4", "5", "6", "7", "8", "9">>

IsDigit(c) == \E i \in 1..Len(Digits) : Digits[i] = c

DigitValue(c) == (CHOOSE i \in 1..Len(Digits) : Digits[i] = c) - 1

\* The number a string of digits denotes
RECURSIVE DecimalValue(_)
DecimalValue(s) ==
    IF s = EmptyStr THEN 0
    ELSE 10 * DecimalValue(SubSeq(s, 1, Len(s) - 1)) + DigitValue(s[Len(s)])

\* strconv.Atoi: an optional sign, then digits and nothing else
Atoi(s) ==
    LET signed == s # EmptyStr /\ s[1] \in {"+", "-"}
        digits == IF signed THEN Tail(s) ELSE s
    IN  IF digits = EmptyStr \/ \E i \in 1..Len(digits) : ~IsDigit(digits[i])
        THEN [err |-> TRUE, value |-> 0]
        ELSE [err |-> FALSE,
              value |-> IF signed /\ s[1] = "-" THEN 0 - DecimalValue(digits)
                        ELSE DecimalValue(digits)]

monthNames ==
    (<<"J", "A", "N">> :> <<"0", "1">>) @@ (<<"F", "E", "B">> :> <<"0", "2">>) @@ (<<"M", "A", "R">> :> <<"0", "3">>)
    @@ (<<"A", "P", "R">> :> <<"0", "4">>) @@ (<<"M", "A", "Y">> :> <<"0", "5">>) @@ (<<"J", "U", "N">> :> <<"0", "6">>)
    @@ (<<"J", "U", "L">> :> <<"0", "7">>) @@ (<<"A", "U", "G">> :> <<"0", "8">>) @@ (<<"S", "E", "P">> :> <<"0", "9">>)
    @@ (<<"O", "C", "T">> :> <<"1", "0">>) @@ (<<"N", "O", "V">> :> <<"1", "1">>) @@ (<<"D", "E", "C">> :> <<"1", "2">>)

ValidateDate(date) ==
    IF Len(date) < 4 THEN EmptyStr
    ELSE IF Len(date) = 4
    THEN LET year == Atoi(date)
         IN  IF year.err THEN EmptyStr
             ELSE IF year.value >= 1960 /\ year.value <= 2023 THEN date
             ELSE EmptyStr
    ELSE IF Len(date) = 6
    THEN LET year == Atoi(SubSeq(date, 1, 4))
             month == Atoi(SubSeq(date, 5, 5))       \* date[4:5]
         IN  IF year.err \/ year.value < 1960 \/ year.value > 2023 THEN EmptyStr
             ELSE IF month.err \/ month.value < 1 \/ month.value > 12 THEN EmptyStr
             ELSE SubSeq(date, 1, 4) \o <<"-">> \o SubSeq(date, 5, 6)
    ELSE IF Len(date) = 5
    THEN LET possibleMonth == ToUpper(SubSeq(date, 1, 3))
             possibleYear == SubSeq(date, 4, 5)
             possibleYearInt == Atoi(possibleYear)
         IN  IF possibleYearInt.err THEN EmptyStr
             ELSE IF possibleMonth \in DOMAIN monthNames
             THEN IF possibleYearInt.value < 25
                  THEN <<"2", "0">> \o possibleYear \o <<"-">> \o monthNames[possibleMonth]
                  ELSE <<"1", "9">> \o possibleYear \o <<"-">> \o monthNames[possibleMonth]
             ELSE EmptyStr
    ELSE EmptyStr

\* Years, months and other strings the dates given to ValidateDate are made of
DateYears ==
    {<<"1", "9", "5", "9">>, <<"1", "9", "6", "0">>, <<"1", "9", "7", "9">>, <<"2", "0", "2", "3">>,
    <<"2", "0", "2", "4">>, <<"1", "9", "a", "0">>, <<"+", "9", "9", "9">>}
DateLongYears ==
    {<<"1", "9", "5", "9">>, <<"1", "9", "6", "0">>, <<"1", "9", "7", "9">>, <<"2", "0", "2", "3">>,
    <<"2", "0", "2", "4">>}
DateMonths ==
    {<<"0", "0">>, <<"0", "1">>, <<"0", "9">>, <<"1", "0">>,
    <<"1", "2">>, <<"1", "3">>, <<"1", "9">>, <<"1", "x">>,
    <<"x", "1">>, <<"9", "1">>}
DateMonthNames ==
    {<<"M", "a", "y">>, <<"M", "A", "Y">>, <<"j", "u", "n">>, <<"D", "e", "c">>,
    <<"X", "y", "z">>, <<"M", "a", "1">>}
DateShortYears ==
    {<<"0", "0">>, <<"2", "4">>, <<"2", "5">>, <<"2", "6">>,
    <<"4", "9">>, <<"5", "0">>, <<"9", "1">>, <<"9", "9">>,
    <<"+", "5">>, <<"-", "1">>, <<"x", "1">>, <<"1", "x">>}
DateOthers ==
    {<<>>, <<"1", "9", "6">>, <<"1", "9", "6", "0", "0">>, <<"1", "9", "6", "0", "-", "1", "2">>,
    <<"M", "a", "y", "1", "9", "9", "1">>}

DateInputs ==
    DateYears \cup {y \o m : y \in DateLongYears, m \in DateMonths}
              \cup {m \o y : m \in DateMonthNames, y \in DateShortYears}
              \cup DateOthers

CallValidateDate ==
    /\ fnPc = "date"
    /\ fnResult' = ValidateDate(fnArg)
    /\ fnPc' = "date_done"
    /\ UNCHANGED <<fnArg, keyDoc, keyResult, keyPc, fluVars, laVars>>

----------------------------------------------------------------------------
(* The persistent store: calls made on it after Init                       *)

MaxStoreCalls == 3

StoreKeys == { <<"V", "/", "/">> \o <<"a", ".", "p", "d", "f">>,
               <<"W", "/", "/">> \o <<"a", ".", "p", "d", "f">> }

\* The calls: Store.Lookup, Store.Update, and CalculateMd5Sum on the file
\* a.pdf of a volume, which os.ReadFile can read or not
StoreCalls ==
    [op : {"Lookup"}, key : StoreKeys]
    \cup [op : {"Update"}, key : StoreKeys, data : {sM1, sM2}]
    \cup [op : {"CalculateMd5Sum"}, key : StoreKeys, readable : BOOLEAN]

FileOfKey(key) == CHOOSE f \in DiskFiles : key = SubSeq(key, 1, 3) \o f.path

laVarsButStore == <<laPc, manifest, fileExceptions, laLog, programFlags, laIdx,
                    laCategory, curIndex, laLink, laSub, idxMap, catMap, extraMap,
                    mergePending, masterMap, laOutput>>

\* fnArg is the list of the calls made so far, each with whether it called
\* Update; fnResult is what the last call returned
CallLookup ==
    /\ fnPc = "store"
    /\ Len(fnArg) < MaxStoreCalls
    /\ \E c \in StoreCalls :
          /\ c.op = "Lookup"
          /\ fnArg' = Append(fnArg, [call |-> c, updated |-> FALSE])
          /\ fnResult' = Lookup(md5Store, c.key)
    /\ UNCHANGED <<fnPc, md5Store, keyDoc, keyResult, keyPc, fluVars, laVarsButStore>>

CallUpdate ==
    /\ fnPc = "store"
    /\ Len(fnArg) < MaxStoreCalls
    /\ \E c \in StoreCalls :
          /\ c.op = "Update"
          /\ fnArg' = Append(fnArg, [call |-> c, updated |-> TRUE])
          /\ md5Store' = Update(md5Store, c.key, c.data)
    /\ fnResult' = EmptyStr
    /\ UNCHANGED <<fnPc, keyDoc, keyResult, keyPc, fluVars, laVarsButStore>>

CallCalculateMd5Sum ==
    /\ fnPc = "store"
    /\ Len(fnArg) < MaxStoreCalls
    /\ \E c \in StoreCalls :
          /\ c.op = "CalculateMd5Sum"
          /\ LET r == CalculateMd5Sum(md5Store, c.key, FileOfKey(c.key), c.readable)
             IN  /\ fnArg' = Append(fnArg, [call |-> c, updated |-> r.updated])
                 /\ fnResult' = [md5 |-> r.md5, err |-> r.err]
                 /\ md5Store' = r.store
    /\ UNCHANGED <<fnPc, keyDoc, keyResult, keyPc, fluVars, laVarsButStore>>

----------------------------------------------------------------------------
(* Specifications                                                          *)

\* One call of DetermineDocumentFormat or TidyDocumentTitle
CallStart ==
    /\ fnResult = EmptyStr
    /\ \/ /\ fnPc = "format"
          /\ fnArg \in [base : FormatBases, ext : FormatExts]
       \/ /\ fnPc = "tidy"
          /\ fnArg \in TitleInputs
       \/ /\ fnPc = "indirect2"
          /\ fnArg \in SeqsUpTo(VolumeLines, MaxIndirectLines)
       \/ /\ fnPc = "indirect"
          /\ fnArg \in SeqsUpTo(EntryLines, MaxIndirectLines)
       \/ /\ fnPc = "date"
          /\ fnArg \in DateInputs

CallsNext ==
    \/ CallDetermineDocumentFormat
    \/ CallTidyDocumentTitle
    \/ CallParseIndirectFile2
    \/ CallParseIndirectFile
    \/ CallValidateDate

CallsInit ==
    /\ keyDoc = Doc(EmptyStr, EmptyStr, EmptyStr, EmptyStr, EmptyStr)
    /\ keyResult = EmptyStr
    /\ keyPc = "off"
    /\ CallStart
    /\ FluOff
    /\ LaOff

SpecCalls == CallsInit /\ [][CallsNext]_vars

\* Store.Init has returned
StoreInit ==
    /\ keyDoc = Doc(EmptyStr, EmptyStr, EmptyStr, EmptyStr, EmptyStr)
    /\ keyResult = EmptyStr
    /\ keyPc = "off"
    /\ fnPc = "store"
    /\ fnArg = <<>>
    /\ fnResult = EmptyStr
    /\ FluOff
    /\ laPc = "off"
    /\ manifest = <<>>
    /\ programFlags = [GenerateMD5 |-> FALSE]
    /\ laIdx = 0
    /\ laCategory = "AC_Undefined"
    /\ curIndex = <<>>
    /\ laLink = 0
    /\ laSub = 0
    /\ idxMap = EmptyMap
    /\ catMap = EmptyMap
    /\ extraMap = EmptyMap
    /\ mergePending = {}
    /\ masterMap = EmptyMap
    /\ md5Store \in StoreInits
    /\ laOutput = <<>>
    /\ fileExceptions = NoExceptions
    /\ laLog = EmptyStr

StoreNext == CallLookup \/ CallUpdate \/ CallCalculateMd5Sum

SpecStore == StoreInit /\ [][StoreNext]_vars

KeyInit == KeyStart /\ FluOff /\ LaOff

KeyNext == DeriveKey

SpecKey == KeyInit /\ [][KeyNext]_vars

UniqueInit == KeyOff /\ FluStart /\ LaOff

SpecUnique == UniqueInit /\ [][FluNext]_vars

MergeInit == KeyOff /\ MergeStart /\ LaOff

SpecMerge == MergeInit /\ [][MergeNext]_vars

ArchiveInit == KeyOff /\ FluOff /\ LaStart

SpecArchive == ArchiveInit /\ [][ArchiveNext]_vars

\* Every place where key-to-Document maps are merged: BuildMapOfDocuments and
\* the loops of local-archive-to-yaml
MergeSitesInit == MergeInit \/ ArchiveInit

MergeSitesNext == MergeNext \/ ArchiveNext

SpecMergeSites == MergeSitesInit /\ [][MergeSitesNext]_vars

\* The first non-empty of checksum, part number, title, filepath.
FirstNonEmptyField(doc) ==
    IF doc.Md5 # EmptyStr THEN doc.Md5
    ELSE IF doc.PartNum # EmptyStr THEN doc.PartNum
    ELSE IF doc.Title # EmptyStr THEN doc.Title
    ELSE doc.Filepath

\* C1 (as stated): the key is exactly the first non-empty field in the order
\* checksum, part number, title, filepath.
C1_KeyIsFirstNonEmptyField ==
    keyPc = "done" => keyResult = FirstNonEmptyField(keyDoc)

\* C1 (amended): the key is the checksum when it is non-empty; otherwise the
\* part number followed by the extension of the filepath when the part number
\* is non-empty; otherwise the title followed by the extension of the filepath
\* when the title is non-empty; otherwise the filepath. A document with a
\* non-empty filepath has a non-empty key.
C1_KeyPriorityWithExtension ==
    keyPc = "done" =>
        /\ keyDoc.Md5 # EmptyStr => keyResult = keyDoc.Md5
        /\ (keyDoc.Md5 = EmptyStr /\ keyDoc.PartNum # EmptyStr)
               => keyResult = keyDoc.PartNum \o Ext(keyDoc.Filepath)
        /\ (keyDoc.Md5 = EmptyStr /\ keyDoc.PartNum = EmptyStr
                /\ keyDoc.Title # EmptyStr)
               => keyResult = keyDoc.Title \o Ext(keyDoc.Filepath)
        /\ (keyDoc.Md5 = EmptyStr /\ keyDoc.PartNum = EmptyStr
                /\ keyDoc.Title = EmptyStr)
               => keyResult = keyDoc.Filepath
        /\ keyDoc.Filepath # EmptyStr => keyResult # EmptyStr

\* A key has been derived from a part number and a filepath with an extension,
\* for a document that also has a title.
C1_Witness ==
    /\ keyPc = "done"
    /\ keyDoc.Md5 = EmptyStr
    /\ keyDoc.PartNum = <<"E", "K", "-", "1">>
    /\ keyDoc.Title # EmptyStr
    /\ keyDoc.Filepath = <<"d", "/", "a", ".", "p", "d", "f">>
    /\ keyResult = <<"E", "K", "-", "1", ".", "p", "d", "f">>

\* C2: each local document is classified by the first rule that matches, in
\* the order path fragment, checksum equal to a remote key, normalised part
\* number of some remote document, base filename of some remote document; it
\* is put into the unique output if and only if no rule matches; a document
\* whose filepath contains /bitsavers/ is never put into it.
C2_FirstMatchingRuleDecides ==
    [][\A k \in clsPending \ clsPending' :
          LET d == localDocuments[k]
              Step(f) == counts'[f] - counts[f]
              byPath == \E i \in 1..Len(partialPathsToReject) :
                           Contains(d.Filepath, partialPathsToReject[i])
              byMd5 == \E rk \in DOMAIN remoteDocuments : rk = d.Md5
              byPN == \E rk \in DOMAIN remoteDocuments :
                         NormalisePartNum(remoteDocuments[rk].PartNum)
                             = NormalisePartNum(d.PartNum)
              byFN == \E rk \in DOMAIN remoteDocuments :
                         Base(remoteDocuments[rk].Filepath) = Base(d.Filepath)
              noRule == ~byPath /\ ~byMd5 /\ ~byPN /\ ~byFN
          IN  /\ Step("matchedPath") = IF byPath THEN 1 ELSE 0
              /\ Step("matchedMD5") = IF ~byPath /\ byMd5 THEN 1 ELSE 0
              /\ Step("matchedPN") = IF ~byPath /\ ~byMd5 /\ byPN THEN 1 ELSE 0
              /\ Step("matchedFN") =
                    IF ~byPath /\ ~byMd5 /\ ~byPN /\ byFN THEN 1 ELSE 0
              /\ Step("locallyUnique") = IF noRule THEN 1 ELSE 0
              /\ noRule => uniqueDocuments' = Put(uniqueDocuments, d.Filepath, d)
              /\ ~noRule => uniqueDocuments' = uniqueDocuments
              /\ Contains(d.Filepath, sBitsavers)
                    => uniqueDocuments' = uniqueDocuments
      ]_vars

\* A run has ended in which a local document under /bitsavers/ whose checksum
\* is a remote key was dropped by the path rule and another one was emitted.
C2_Witness ==
    /\ fluPc = "done"
    /\ sM1 \in DOMAIN localDocuments
    /\ Contains(localDocuments[sM1].Filepath, sBitsavers)
    /\ sM1 \in DOMAIN remoteDocuments
    /\ counts.matchedPath = 1
    /\ counts.matchedMD5 = 0
    /\ counts.locallyUnique = 1
    /\ Cardinality(DOMAIN uniqueDocuments) = 1

\* C4: when BuildMapOfDocuments is given S followed by S, nothing it does
\* while reading the second copy of S changes the map, so the result is the map
\* built from S alone.
C4_SecondPassChangesNothing ==
    [][(fluPc = "merge" /\ 2 * bmIdx > Len(bmFilenames))
          => documents' = documents]_vars

\* A merge of S followed by S has ended where the first source of S holds two
\* entries that get the same key and have different checksums.
C4_Witness ==
    /\ fluPc = "done"
    /\ Len(bmFilenames) = 4
    /\ {<<"k", "1">>, sM1} \subseteq DOMAIN bmFilenames[1]
    /\ PickKey(<<"k", "1">>, bmFilenames[1][<<"k", "1">>])
          = PickKey(sM1, bmFilenames[1][sM1])
    /\ Cardinality(DOMAIN documents) = 2

\* ProcessArchive has classified the volume main is working on.
Classified ==
    /\ laIdx < Len(manifest)
    /\ laPc \in {"custom", "parse", "submerge", "merge", "fatal"}

CurMarkers == manifest[laIdx + 1].markers

C5_ParseIndexHtmlNeverReplaces ==
    [][laPc = "parse" =>
          \A k \in DOMAIN idxMap : k \in DOMAIN idxMap' /\ idxMap'[k] = idxMap[k]
      ]_vars

\* C6: for each of the 32 combinations of markers DetermineCategory returns
\* one of the six ArchiveCategory values.
C6_ClassifierTotal ==
    Classified => laCategory \in ArchiveCategories

\* A volume with all five markers present has been classified.
C6_Witness ==
    /\ Classified
    /\ CurMarkers = Markers(TRUE, TRUE, TRUE, TRUE, TRUE)
    /\ laCategory = "AC_Undefined"

\* C7: index.htm present and the four other markers absent gives AC_Regular.
C7_IndexOnlyIsRegular ==
    (Classified /\ CurMarkers = Markers(TRUE, FALSE, FALSE, FALSE, FALSE))
        => laCategory = "AC_Regular"

\* ParseIndexHtml is at work on the index.htm of a volume with no other marker.
C7_Witness ==
    /\ laPc = "parse"
    /\ CurMarkers = Markers(TRUE, FALSE, FALSE, FALSE, FALSE)
    /\ laCategory = "AC_Regular"
    /\ laLink > 0

\* C8: with INDEX.HTM present the category is AC_HTML if HTML/ is present and
\* index.htm, metadata/ and DEC_0040.CRC are absent, and AC_Undefined for every
\* other combination.
C8_UppercaseIndex ==
    (Classified /\ CurMarkers.INDEX_dot_HTM) =>
        laCategory =
            IF CurMarkers.dir_HTML /\ ~CurMarkers.index_dot_htm
               /\ ~CurMarkers.dir_metadata /\ ~CurMarkers.custom_indicator
            THEN "AC_HTML"
            ELSE "AC_Undefined"

\* A volume with INDEX.HTM, HTML/ and also index.htm has been classified
\* undefined.
C8_Witness ==
    /\ Classified
    /\ CurMarkers = Markers(TRUE, TRUE, FALSE, TRUE, FALSE)
    /\ laCategory = "AC_Undefined"

\* C9 (as stated): metadata/ present and DEC_0040.CRC absent gives AC_Metadata
\* for every combination of the other markers.
C9_MetadataAlways ==
    (Classified /\ CurMarkers.dir_metadata /\ ~CurMarkers.custom_indicator)
        => laCategory = "AC_Metadata"

\* C9 (amended): with metadata/ present and DEC_0040.CRC absent the category
\* is AC_Metadata if index.htm is present and INDEX.HTM and HTML/ are absent,
\* and AC_Undefined for every other combination.
C9_MetadataWhenValid ==
    (Classified /\ CurMarkers.dir_metadata /\ ~CurMarkers.custom_indicator) =>
        laCategory =
            IF CurMarkers.index_dot_htm /\ ~CurMarkers.INDEX_dot_HTM
               /\ ~CurMarkers.dir_HTML
            THEN "AC_Metadata"
            ELSE "AC_Undefined"

\* A volume with metadata/ and nothing else, index.htm missing, has been
\* classified undefined.
C9_Witness ==
    /\ Classified
    /\ CurMarkers = Markers(FALSE, FALSE, FALSE, FALSE, TRUE)
    /\ laCategory = "AC_Undefined"

\* C10 (as stated): DEC_0040.CRC present gives AC_Custom for every combination
\* of the other markers, metadata/ included.
C10_CustomAlways ==
    (Classified /\ CurMarkers.custom_indicator) => laCategory = "AC_Custom"

\* C10 (amended): with DEC_0040.CRC present the category is AC_Custom if
\* index.htm is present and INDEX.HTM, HTML/ and metadata/ are absent, and
\* AC_Undefined for every other combination, the one with metadata/ included.
C10_CustomWhenValid ==
    (Classified /\ CurMarkers.custom_indicator) =>
        laCategory =
            IF CurMarkers.index_dot_htm /\ ~CurMarkers.INDEX_dot_HTM
               /\ ~CurMarkers.dir_HTML /\ ~CurMarkers.dir_metadata
            THEN "AC_Custom"
            ELSE "AC_Undefined"

\* A volume with index.htm, DEC_0040.CRC and metadata/ has been classified
\* undefined.
C10_Witness ==
    /\ Classified
    /\ CurMarkers = Markers(TRUE, FALSE, TRUE, FALSE, TRUE)
    /\ laCategory = "AC_Undefined"

\* C11: a volume classified AC_Undefined ends the run with a fatal error: main
\* does not go on past it, and no run reaches the end and writes the YAML file
\* with such a volume in its manifest.
C11_UndefinedIsFatal ==
    /\ (Classified /\ laCategory = "AC_Undefined") => laPc = "fatal"
    /\ laPc = "done" =>
          \A i \in 1..Len(manifest) :
              manifest[i].type = "PathAndVolume"
                  => DetermineCategory(manifest[i].markers) # "AC_Undefined"

\* C12: the YAML file is written only when every manifest entry has been
\* processed, and a run that met a fatal condition has written neither the
\* YAML file nor the MD5 cache.
C12_NoOutputBeforeEnd ==
    /\ laOutput # <<>> => laPc = "done" /\ laIdx = Len(manifest)
    /\ laPc = "fatal" => laOutput = <<>>

\* The run has failed in its second volume, after the first one had put
\* documents into the map of main; nothing has been written.
C12_Witness ==
    /\ laPc = "fatal"
    /\ laIdx = 1
    /\ masterMap # EmptyMap
    /\ laOutput = <<>>

\* C15: the MD5 store is written at most once in a run, in the step that has
\* written the YAML file, and only if it is active and an Update was made;
\* the store becomes dirty only by an Update for a key that was not in the
\* cache, so a run whose lookups all hit the cache does not write it.
C15_StoreSavedOnceAtEnd ==
    [][/\ laOutput # <<>> => laOutput' = laOutput
       /\ laOutput' # laOutput => laPc' = "done"
       /\ (laOutput' # <<>> /\ laOutput'[1].md5Cache # <<>>) =>
              /\ md5Store.Active /\ md5Store.Dirty
              /\ laOutput'[1].yaml = masterMap
              /\ laOutput'[1].md5Cache = <<md5Store.Data>>
       /\ (md5Store'.Dirty /\ ~md5Store.Dirty) =>
              DOMAIN md5Store'.Data # DOMAIN md5Store.Data
      ]_vars

\* A run with checksums in which every lookup found its key in the cache has
\* ended: documents were catalogued and the store file was not written.
C15_Witness ==
    /\ laPc = "done"
    /\ programFlags.GenerateMD5
    /\ masterMap # EmptyMap
    /\ md5Store.Active /\ ~md5Store.Dirty
    /\ laOutput # <<>> /\ laOutput[1].md5Cache = <<>>

\* C13: for a file type listed in KnownFileTypes or in FileTypesToRecategorise,
\* in either case of letters, DetermineDocumentFormat returns a format and no
\* error, the same format for HTM and HTML and for JPG and JPEG; for every
\* other file type it returns "???" and an error.
C13_ListedTypesHaveFormat ==
    fnPc = "format_done" =>
        LET e == ToUpper(fnArg.ext)
        IN  IF e \in DocumentKnownFileTypes \cup DOMAIN FileTypesToRecategorise
            THEN /\ ~fnResult.err
                 /\ fnResult.format # sUnknownFormat
                 /\ e \in {<<"H", "T", "M">>, <<"H", "T", "M", "L">>}
                       => fnResult.format = <<"H", "T", "M", "L">>
                 /\ e \in {<<"J", "P", "G">>, <<"J", "P", "E", "G">>}
                       => fnResult.format = <<"J", "P", "E", "G">>
            ELSE fnResult.err /\ fnResult.format = sUnknownFormat

IsWordOrBR(piece) == piece \notin {sSP, sCR, sLF}

IsTitleText(c) == c \notin {" ", "."}

IsDot(c) == c = "."

\* The number of maximal runs of <BR> pieces, runs being joined across
\* whitespace
BRRuns(pieces) ==
    LET f == SelectSeq(pieces, IsWordOrBR)
    IN  Cardinality({i \in 1..Len(f) : f[i] = sBR /\ (i = 1 \/ f[i - 1] # sBR)})

RECURSIVE WordsOf(_)
WordsOf(pieces) ==
    IF pieces = <<>> THEN EmptyStr
    ELSE (IF Head(pieces) \in {sSP, sCR, sLF, sBR} THEN EmptyStr ELSE Head(pieces))
         \o WordsOf(Tail(pieces))

\* C14: the title TidyDocumentTitle returns has no leading whitespace, no CR,
\* LF or tab, no two spaces in a row, no <BR>, and a trailing space only after
\* a full stop; it has one ". " for every maximal run of <BR> (whitespace
\* between the <BR> of a run allowed) and the other characters of the title
\* in their order; the three titles of the claim give "Hello. World. !", ". "
\* and "Hello World. ".
C14_TitleIsTidied ==
    fnPc = "tidy_done" =>
        LET r == fnResult
        IN  /\ \A i \in 1..Len(r) : r[i] \notin {"\r", "\n", "\t"}
            /\ \A i \in 1..(Len(r) - 1) : ~(r[i] = " " /\ r[i + 1] = " ")
            /\ r # EmptyStr => r[1] # " "
            /\ (r # EmptyStr /\ r[Len(r)] = " ") => (Len(r) >= 2 /\ r[Len(r) - 1] = ".")
            /\ ~Contains(r, sBR)
            /\ Len(SelectSeq(r, IsDot)) = BRRuns(fnArg)
            /\ \A i \in 1..Len(r) : r[i] = "." => (i < Len(r) /\ r[i + 1] = " ")
            /\ SelectSeq(r, IsTitleText) = WordsOf(fnArg)
            /\ fnArg = <<sSP, sSP, sHello, sSP, sBR, sSP, sSP, sWorld, sSP, sSP, sBR,
                         sBR, sSP, sBang, sSP, sSP>>
                  => r = <<"H", "e", "l", "l", "o", ".", " ", "W", "o", "r", "l", "d", ".", " ", "!">>
            /\ fnArg = <<sBR, sBR, sBR>> => r = sDotSpace
            /\ fnArg = <<sHello, sSP, sWorld, sSP, sBR>>
                  => r = <<"H", "e", "l", "l", "o", " ", "W", "o", "r", "l", "d", ".", " ">>

\* TidyDocumentTitle has returned for "  Hello <BR>  World  <BR><BR> !  ".
C14_Witness ==
    /\ fnPc = "tidy_done"
    /\ Flatten(fnArg) = <<" ", " ", "H", "e", "l", "l", "o", " ", "<", "B", "R", ">", " ", " ", "W", "o", "r", "l", "d", " ", " ", "<", "B", "R", ">", "<", "B", "R", ">", " ", "!", " ", " ">>
    /\ fnResult = <<"H", "e", "l", "l", "o", ".", " ", "W", "o", "r", "l", "d", ".", " ", "!">>

IsNonEmptyLine(l) == l.text # EmptyStr

C17_MissingVolumeIsError ==
    /\ (fnPc = "indirect2_done" /\ \E i \in 1..Len(fnArg) : fnArg[i].tokens = 1)
           => fnResult.err
    /\ (fnPc = "indirect_done"
           /\ \E i \in 1..Len(fnArg) : fnArg[i].kind = "archive" /\ fnArg[i].tokens = 1)
           => fnResult.err

\* C18: every Document that ParseIndexHtml or ProcessCategoryCustom has stored
\* under a key of its own (not a DUPLICATE key) is stored under the key
\* derived from it: its checksum when it has one, otherwise its part number
\* when that is not empty, otherwise its title (each with or without the
\* "~format" suffix); so two documents without checksum and part number and
\* with different titles have different keys.
C18_KeyIsDerivedKey ==
    \A m \in {idxMap, catMap} : \A k \in DOMAIN m :
        ~Contains(k, sDUPLICATE) =>
            LET d == m[k]
                field == IF d.Md5 # EmptyStr THEN d.Md5
                         ELSE IF d.PartNum # EmptyStr THEN d.PartNum
                         ELSE d.Title
            IN  k \in {field, field \o <<"~">> \o d.Format}

\* C19: every entry BuildMapOfDocuments has stored is stored under the key
\* recomputed from its Document (BuildKeyFromDocument), whatever key its
\* source used.
C19_StoredUnderCanonicalKey ==
    fluPc \in BMPhases =>
        \A key \in DOMAIN documents : key = BuildKeyFromDocument(documents[key])

\* The entries of the source src that are in pending, merged into docs in one
\* fixed order
RECURSIVE MergeSourceInOrder(_, _, _)
MergeSourceInOrder(docs, src, pending) ==
    IF pending = {} THEN docs
    ELSE LET k == CHOOSE x \in pending : TRUE
         IN  MergeSourceInOrder(BuildMapInsert(docs, k, src[k]), src, pending \ {k})

\* The sources from the i-th on, merged into docs, each in that fixed order
RECURSIVE MergeInOrder(_, _, _)
MergeInOrder(docs, filenames, i) ==
    IF i > Len(filenames) THEN docs
    ELSE MergeInOrder(MergeSourceInOrder(docs, filenames[i], DOMAIN filenames[i]),
                      filenames, i + 1)

\* C20: the map BuildMapOfDocuments ends with is a function of the list of
\* sources: whatever order the entries of each source were visited in, it is
\* the map that one fixed order of visiting them gives.
C20_MapIsFunctionOfSources ==
    (fluPc \in BMPhases /\ BMFinished) =>
        documents = MergeInOrder(EmptyMap, bmFilenames, 1)

\* ParseIndexHtml is about to handle a link that resolves to no file
UnresolvedLink ==
    /\ laPc = "parse"
    /\ laLink < Len(curIndex)
    /\ GlobCaseInsensitive(DiskFiles, curIndex[laLink + 1].target) = {}

\* The number of entries of the table that are e
Count(table, e) == Cardinality({i \in 1..Len(table) : table[i] = e})

\* after is before without one entry that is e
OneRemoved(before, after, e) ==
    /\ Len(after) = Len(before) - 1
    /\ \A i \in 1..Len(before) :
           Count(after, before[i]) = Count(before, before[i]) - (IF before[i] = e THEN 1 ELSE 0)

\* The entries of the substitution table for the path
SubstitutesFor(path) ==
    {i \in 1..Len(fileExceptions.FileSubstitutes) :
        fileExceptions.FileSubstitutes[i].MistypedFilepath = path}

\* C21 (as stated): when a link resolves to no file and the substitution
\* table has an entry for its path, the step removes one entry for that path
\* from the table, whether or not the retry with the substitute finds a file.
C21_SubstituteAlwaysRemoved ==
    [][(UnresolvedLink /\ SubstitutesFor(curIndex[laLink + 1].target) # {}) =>
          \E i \in SubstitutesFor(curIndex[laLink + 1].target) :
              OneRemoved(fileExceptions.FileSubstitutes,
                         fileExceptions'.FileSubstitutes,
                         fileExceptions.FileSubstitutes[i])
      ]_vars

\* C21 (amended): when a link resolves to no file, the entries of the
\* substitution table for its path are retried in the order of the table; the
\* first whose substitute is found on disk is removed from the table, and the
\* link is not reported missing; an entry whose substitute is not found stays
\* in the table, and when none is found the table is unchanged.
C21_SubstituteRemovedWhenFound ==
    [][UnresolvedLink =>
          LET table == fileExceptions.FileSubstitutes
              hits == {i \in SubstitutesFor(curIndex[laLink + 1].target) :
                          GlobCaseInsensitive(DiskFiles, table[i].ActualFilepath) # {}}
          IN  IF hits = {}
              THEN fileExceptions'.FileSubstitutes = table
              ELSE /\ OneRemoved(table, fileExceptions'.FileSubstitutes,
                                 table[CHOOSE i \in hits : \A j \in hits : i <= j])
                   /\ fileExceptions'.MissingFiles = fileExceptions.MissingFiles
                   /\ laLog' # sMISSINGfile
      ]_vars

\* The link to z.pdf of a volume declared after "z.pdf substitute-with a.pdf"
\* has given a Document for a.pdf, and the table is empty again.
C21_Witness ==
    /\ laPc = "parse"
    /\ manifest[1] = SubstituteFile(pathZ, <<"a", ".", "p", "d", "f">>)
    /\ laIdx = 1
    /\ laLink = 1
    /\ curIndex[1].target = pathZ
    /\ fileExceptions.FileSubstitutes = <<>>
    /\ \E k \in DOMAIN idxMap : Base(idxMap[k].Filepath) = <<"a", ".", "p", "d", "f">>

\* No entry of the substitution table gives the link a file
NoSubstituteFound ==
    \A i \in SubstitutesFor(curIndex[laLink + 1].target) :
        GlobCaseInsensitive(DiskFiles,
                            fileExceptions.FileSubstitutes[i].ActualFilepath) = {}

\* The link ParseIndexHtml is about to handle resolves to no file, no
\* substitute is found and its path is in the table of missing files
KnownMissingLink ==
    /\ UnresolvedLink
    /\ NoSubstituteFound
    /\ \E i \in 1..Len(fileExceptions.MissingFiles) :
           fileExceptions.MissingFiles[i].Filepath = curIndex[laLink + 1].target

\* C22: a link that resolves to no file, for which no substitute is found and
\* whose path is in the table of missing files, is skipped: no Document is
\* added, ParseIndexHtml goes on with the next link of the index file, and
\* the table has an entry for that path less.
C22_KnownMissingIsSkipped ==
    [][KnownMissingLink =>
          /\ laPc' = "parse"
          /\ laLink' = laLink + 1
          /\ idxMap' = idxMap
          /\ Count(fileExceptions'.MissingFiles, MissingFile(curIndex[laLink + 1].target))
                 < Count(fileExceptions.MissingFiles, MissingFile(curIndex[laLink + 1].target))
      ]_vars

\* C23: when the lookup of a link finds more than one file, and when the link
\* resolves to no file and the lookup of a substitute that is retried for it
\* finds more than one file, the run ends with a fatal error and no Document
\* is added.
C23_AmbiguousIsFatal ==
    [][(laPc = "parse" /\ laLink < Len(curIndex)) =>
          LET target == curIndex[laLink + 1].target
              table == fileExceptions.FileSubstitutes
              found == {i \in SubstitutesFor(target) :
                           GlobCaseInsensitive(DiskFiles, table[i].ActualFilepath) # {}}
          IN  /\ Cardinality(GlobCaseInsensitive(DiskFiles, target)) > 1
                    => laPc' = "fatal" /\ idxMap' = idxMap
              /\ (UnresolvedLink /\ found # {}
                     /\ Cardinality(GlobCaseInsensitive(DiskFiles,
                            table[CHOOSE i \in found : \A j \in found : i <= j].ActualFilepath)) > 1)
                    => laPc' = "fatal" /\ idxMap' = idxMap
      ]_vars

\* C24: the report "MISSING file" for a link that resolves to no file is
\* suppressed only by a truly-missing-file declaration that stands between the
\* volume of the link and the volume before it in the indirect file.
C24_MissingOnlyForNextVolume ==
    [][(UnresolvedLink /\ NoSubstituteFound /\ laPc' = "parse" /\ laLog' # sMISSINGfile) =>
          \E j \in 1..laIdx :
              /\ manifest[j] = MissingFile(curIndex[laLink + 1].target)
              /\ \A m \in j..laIdx : manifest[m].type # "PathAndVolume"
      ]_vars

\* C28: for a link that resolves to no file, for which no substitute is found
\* and whose path is in the table of missing files, the step ends without a
\* runtime fault, and the table afterwards is the table before without one
\* entry for that path.
C28_OneKnownMissingRemoved ==
    [][KnownMissingLink =>
          /\ laPc' # "panic"
          /\ OneRemoved(fileExceptions.MissingFiles, fileExceptions'.MissingFiles,
                        MissingFile(curIndex[laLink + 1].target))
      ]_vars

\* C29: every SubstituteFile that ParseIndirectFile returns, and that main
\* then appends to the substitution table, has a mistyped path and an actual
\* path that are not empty: an incorrect-filepath line without a well-formed
\* "<mistyped> substitute-with <actual>" gives none.
C29_SubstitutesAreWellFormed ==
    fnPc = "indirect_done" =>
        \A i \in 1..Len(fnResult.result) :
            fnResult.result[i].type = "SubstituteFile"
                => /\ fnResult.result[i].MistypedFilepath # EmptyStr
                   /\ fnResult.result[i].ActualFilepath # EmptyStr

AllDigits(s) == \A i \in 1..Len(s) : IsDigit(s[i])

\* What the three accepted shapes give for a date, "" for any other
DateOfShape(date) ==
    IF Len(date) = 4 /\ AllDigits(date)
          /\ DecimalValue(date) >= 1960 /\ DecimalValue(date) <= 2023
    THEN date
    ELSE IF Len(date) = 6 /\ AllDigits(date)
          /\ DecimalValue(SubSeq(date, 1, 4)) >= 1960
          /\ DecimalValue(SubSeq(date, 1, 4)) <= 2023
          /\ DecimalValue(SubSeq(date, 5, 6)) >= 1 /\ DecimalValue(SubSeq(date, 5, 6)) <= 12
    THEN SubSeq(date, 1, 4) \o <<"-">> \o SubSeq(date, 5, 6)
    ELSE IF Len(date) = 5 /\ ToUpper(SubSeq(date, 1, 3)) \in DOMAIN monthNames
          /\ AllDigits(SubSeq(date, 4, 5))
    THEN LET yy == DecimalValue(SubSeq(date, 4, 5))
             mm == monthNames[ToUpper(SubSeq(date, 1, 3))]
         IN  IF yy >= 50 THEN <<"1", "9">> \o SubSeq(date, 4, 5) \o <<"-">> \o mm
             ELSE IF yy <= 25 THEN <<"2", "0">> \o SubSeq(date, 4, 5) \o <<"-">> \o mm
             ELSE EmptyStr
    ELSE EmptyStr

\* C25: ValidateDate returns a year YYYY of 1960..2023 unchanged, YYYY-MM for
\* YYYYMM with such a year and a month of 01..12, 19YY-MM for a month
\* abbreviation followed by YY of 50..99, 20YY-MM for one followed by YY of
\* 00..25, and "" for every other string.
C25_DateShapes ==
    fnPc = "date_done" => fnResult = DateOfShape(fnArg)

\* C26: a local document whose part number is empty is never counted as
\* dropped by part number, whatever the remote documents are.
C26_EmptyPartNumNeverMatches ==
    [][\A k \in clsPending \ clsPending' :
          localDocuments[k].PartNum = EmptyStr
              => counts'.matchedPN = counts.matchedPN
      ]_vars

\* C27: when the reconciliation loop has ended, the counters of the five
\* outcomes add up to the number of local documents, and the map of unique
\* documents has as many entries as the counter of unique documents says.
C27_CountersAddUp ==
    (fluPc \in {"index", "classify", "done"} /\ idxPending = {} /\ clsPending = {}) =>
        /\ counts.matchedPath + counts.matchedMD5 + counts.matchedPN
              + counts.matchedFN + counts.locallyUnique
                 = Cardinality(DOMAIN localDocuments)
        /\ Cardinality(DOMAIN uniqueDocuments) = counts.locallyUnique

\* The call the step has made on the store, if it has made one
StoreCallMade == fnPc = "store" /\ Len(fnArg') = Len(fnArg) + 1

\* C30 (as stated): after any calls of Lookup, Update and CalculateMd5Sum,
\* Dirty is true exactly when Update has been called; CalculateMd5Sum for a
\* key in the store returns the stored value and leaves Data and Dirty as
\* they are; for a key not in the store it adds that key, and nothing else,
\* and sets Dirty.
C30_StoreFrame ==
    [][StoreCallMade =>
          LET c == fnArg'[Len(fnArg')].call
          IN  /\ md5Store'.Dirty <=> \E i \in 1..Len(fnArg') : fnArg'[i].updated
              /\ c.op = "Lookup" => md5Store' = md5Store
              /\ (c.op = "CalculateMd5Sum" /\ c.key \in DOMAIN md5Store.Data)
                    => /\ fnResult' = [md5 |-> md5Store.Data[c.key], err |-> FALSE]
                       /\ md5Store' = md5Store
              /\ (c.op = "CalculateMd5Sum" /\ c.key \notin DOMAIN md5Store.Data)
                    => /\ DOMAIN md5Store'.Data = DOMAIN md5Store.Data \cup {c.key}
                       /\ \A k \in DOMAIN md5Store.Data :
                              md5Store'.Data[k] = md5Store.Data[k]
                       /\ md5Store'.Dirty
      ]_vars

\* C30 (amended): as above, but a call of CalculateMd5Sum for a key not in
\* the store adds that key, with the checksum of the file, and sets Dirty when
\* the file can be read; when it cannot, the call returns an error and leaves
\* the store as it is.
C30_StoreFrameWhenReadable ==
    [][StoreCallMade =>
          LET c == fnArg'[Len(fnArg')].call
          IN  /\ md5Store'.Dirty <=> \E i \in 1..Len(fnArg') : fnArg'[i].updated
              /\ c.op = "Lookup" => md5Store' = md5Store
              /\ (c.op = "CalculateMd5Sum" /\ c.key \in DOMAIN md5Store.Data)
                    => /\ fnResult' = [md5 |-> md5Store.Data[c.key], err |-> FALSE]
                       /\ md5Store' = md5Store
              /\ (c.op = "CalculateMd5Sum" /\ c.key \notin DOMAIN md5Store.Data
                     /\ c.readable)
                    => /\ DOMAIN md5Store'.Data = DOMAIN md5Store.Data \cup {c.key}
                       /\ \A k \in DOMAIN md5Store.Data :
                              md5Store'.Data[k] = md5Store.Data[k]
                       /\ md5Store'.Data[c.key] = FileOfKey(c.key).md5
                       /\ fnResult' = [md5 |-> FileOfKey(c.key).md5, err |-> FALSE]
                       /\ md5Store'.Dirty
              /\ (c.op = "CalculateMd5Sum" /\ c.key \notin DOMAIN md5Store.Data
                     /\ ~c.readable)
                    => fnResult'.err /\ md5Store' = md5Store
      ]_vars

\* CalculateMd5Sum has added a key to an empty store, Update has then put
\* another value under the key, and CalculateMd5Sum has returned that value.
C30_Witness ==
    /\ fnPc = "store"
    /\ Len(fnArg) = 3
    /\ fnArg[1].call.op = "CalculateMd5Sum" /\ fnArg[1].updated
    /\ fnArg[2].call = [op |-> "Update", key |-> fnArg[1].call.key, data |-> sM2]
    /\ fnArg[3].call.op = "CalculateMd5Sum" /\ fnArg[3].call.key = fnArg[1].call.key
    /\ ~fnArg[3].updated
    /\ fnResult = [md5 |-> sM2, err |-> FALSE]
    /\ md5Store.Dirty
    /\ DOMAIN md5Store.Data = {fnArg[1].call.key}

====
